---- MODULE Spec2Model ----
(***************************************************************************)
(* Model of the extraction pipeline of crew_sheets:                        *)
(*   - SmartRetryService (smart_retry.py): strategy selection and the      *)
(*     sequential retry loop;                                              *)
(*   - OpenAIService (services.py): the API call with retry and backoff;   *)
(*   - MultiStageExtractor (multi_stage_extractor.py): structure analysis, *)
(*     data extraction with alignment, cross-validation.                   *)
(* Each component has its own specification over the shared variables; the *)
(* variables of the other components stay at their idle values.            *)
(***************************************************************************)
EXTENDS Integers, Sequences, FiniteSets, TLC

VARIABLES
    \* ---- SmartRetryService.extract_with_smart_retry
    retry_pc,             \* "idle" | "select" | "loop" | "final" | "done"
    template,             \* TRUE iff a SheetTemplate was found for template_id
    image_quality,        \* overall_quality of the image, in tenths
    max_strategies,       \* argument max_strategies
    min_confidence,       \* argument min_confidence, in confidence levels
    selected_strategies,  \* result of _select_strategies
    strategy_index,       \* position of the for loop in selected_strategies
    best_result,          \* None or the result dict kept as best
    best_confidence,      \* running best confidence
    attempt_history,      \* list of attempt_info dicts
    retry_returned,       \* None or the dict returned by the orchestrator
    \* ---- OpenAIService._make_api_call / _call_openai_api_with_retry
    api_pc,               \* "idle" | "call" | "done"
    max_retries,          \* argument max_retries
    attempt,              \* loop variable of range(max_retries)
    api_calls,            \* list of the outcomes of the API calls made
    sleeps,               \* list of [after_call, seconds]: the time.sleep calls
    api_returned,         \* None or the dict returned by _make_api_call
    \* ---- MultiStageExtractor.extract_with_stages
    stage_pc,             \* "idle" | "structure" | "data" | "cross" | "done"
    template_fields,      \* None or the template's expected_fields (a set)
    structure_result,     \* None or the dict returned by _analyze_structure
    data_response,        \* None or the parsed data-stage API response
    data_result,          \* None or the dict returned by _extract_data_with_structure
    stage_calls,          \* list of the stages run, in order
    stage_returned,       \* None or the dict returned by extract_with_stages
    \* ---- ContextAwareValidator.validate_extraction_with_context
    val_pc,               \* "idle" | "call" | the validation to run next | "done"
    extraction_result,    \* None or the argument extraction_result
    validation_result,    \* None or the validation_result dict being built
    validation_returned,  \* None or the dict returned
    \* ---- ConfidenceScorer.calculate_field_confidence, QualityValidator.validate_extraction
    scorer_pc,            \* "idle" | "call" | "done"
    scorer_input,         \* None or the arguments of the call
    scorer_output,        \* None or the value returned
    \* ---- EnhancedExtractionService.extract_with_intelligence (template statistics)
    sheet_template,       \* None or the SheetTemplate row: usage_count, success_rate
    created_template,     \* None or the row as it was before its first use
    template_uses,        \* the outcomes of the calls made with this template
    \* ---- UserBehaviorAnalytics.track_edit, RealTimeLearningEngine.process_user_feedback
    user_edits,           \* the UserEdit rows of the session, oldest first
    session_row,          \* the ExtractionSession row
    profile_row,          \* None or the CompanyLearningProfile row of the user
    feedback,             \* None or what process_user_feedback returned last
    feedback_raised,      \* process_user_feedback raised to track_edit
    returned_edit,        \* None or what track_edit returned last
    \* ---- CrewSheetViewSet.process, CrewSheetProcessor.process_crew_sheet_with_learning
    proc_pc,              \* "idle" | "request" | "start" | "extract" | "learn" | "done"
    sheet_row,            \* the CrewSheet row: status, error_message, confidence, review flag
    status_history,       \* the statuses the sheet has had, oldest first
    proc_extraction,      \* None or what extract_crew_sheet_data returned
    proc_learning,        \* None or the scores and the result of process_extraction
    proc_raised,          \* an exception reached the except branch
    proc_returned,        \* None or the response of the view
    \* ---- CrewSheetViewSet.add_cost_center, concurrent requests of one user
    profile_rows,         \* the common_cost_centers of each CompanyLearningProfile row of the user
    requests,             \* per request: its position, cost center, the row it read, its response
    \* ---- UserBehaviorAnalytics.start_session, end_session, _update_user_profile
    sessions,             \* the ExtractionSession rows of the user, oldest first
    user_profile,         \* the UserProfile row: the two counters, and the count per sheet
    end_calls,            \* the number of end_session calls made
    match_pc,          \* CrewMatchingService: "idle" or the matcher that has run
    match_extracted,   \* the employee names or the table headers of the call
    match_known,       \* the list of the company profile the call was given
    match_result       \* the dictionary the matcher returned

retry_vars == <<retry_pc, template, image_quality, max_strategies, min_confidence,
                selected_strategies, strategy_index, best_result, best_confidence,
                attempt_history, retry_returned>>
api_vars == <<api_pc, max_retries, attempt, api_calls, sleeps, api_returned>>
stage_vars == <<stage_pc, template_fields, structure_result, data_response,
                data_result, stage_calls, stage_returned>>
val_vars == <<val_pc, extraction_result, validation_result, validation_returned>>
scorer_vars == <<scorer_pc, scorer_input, scorer_output>>
tmpl_vars == <<sheet_template, created_template, template_uses>>
learn_vars == <<user_edits, session_row, profile_row, feedback, feedback_raised,
                returned_edit>>
proc_vars == <<proc_pc, sheet_row, status_history, proc_extraction, proc_learning,
               proc_raised, proc_returned>>
req_vars == <<profile_rows, requests>>
sess_vars == <<sessions, user_profile, end_calls>>
match_vars == <<match_pc, match_extracted, match_known, match_result>>
vars == <<retry_vars, api_vars, stage_vars, val_vars, scorer_vars, tmpl_vars, learn_vars, proc_vars, req_vars, sess_vars, match_vars>>

\* Python's None: an optional object is <<>> (None) or <<object>>; an optional
\* string is the string or NoneStr.
None == <<>>
Some(x) == <<x>>
NoneStr == "None"

Min(a, b) == IF a < b THEN a ELSE b
Max(a, b) == IF a > b THEN a ELSE b

\* Python's s[:n]: the first n items for n >= 0, all but the last -n for n < 0.
SlicePrefix(s, n) ==
    IF n >= 0 THEN SubSeq(s, 1, Min(n, Len(s)))
    ELSE SubSeq(s, 1, Max(Len(s) + n, 0))

(***************************************************************************)
(* SmartRetryService                                                       *)
(***************************************************************************)

\* class RetryStrategy(Enum)
TEMPLATE_GUIDED == "template_guided"
HIGH_DETAIL == "high_detail"
STRUCTURE_FIRST == "structure_first"
CONSERVATIVE == "conservative"
AGGRESSIVE == "aggressive"
RetryStrategy == {TEMPLATE_GUIDED, HIGH_DETAIL, STRUCTURE_FIRST, CONSERVATIVE, AGGRESSIVE}

\* Confidence scores are modelled as levels 0..MaxConfidence; level 0 is 0.0,
\* the initial value of best_confidence. Only their order is used by the loop.
MaxConfidence == 2
Confidences == 0..MaxConfidence

\* The largest max_strategies a caller passes.
MaxMaxStrategies == 5

\* Thresholds of _select_strategies on overall_quality, in tenths.
PoorQuality == 4
GoodQuality == 7
\* The quality scores on both sides of each threshold.
QualityScores == {PoorQuality - 1, PoorQuality, GoodQuality - 1, GoodQuality}

\* "Remove duplicates while preserving order"
RECURSIVE unique_strategies(_, _)
unique_strategies(strategies, seen) ==
    IF strategies = <<>> THEN <<>>
    ELSE IF Head(strategies) \in seen
         THEN unique_strategies(Tail(strategies), seen)
         ELSE <<Head(strategies)>> \o
              unique_strategies(Tail(strategies), seen \cup {Head(strategies)})

\* Mutant: the thresholds taken inclusively (<= instead of <).
quality_strategies_inclusive(quality_score) ==
    IF quality_score <= PoorQuality
    THEN <<AGGRESSIVE, HIGH_DETAIL, STRUCTURE_FIRST>>
    ELSE IF quality_score <= GoodQuality
         THEN <<HIGH_DETAIL, STRUCTURE_FIRST, CONSERVATIVE>>
         ELSE <<STRUCTURE_FIRST, HIGH_DETAIL, CONSERVATIVE>>

\* The strategies appended for the image quality.
quality_strategies(quality_score) ==
    IF quality_score < PoorQuality
    THEN <<AGGRESSIVE, HIGH_DETAIL, STRUCTURE_FIRST>>
    ELSE IF quality_score < GoodQuality
         THEN <<HIGH_DETAIL, STRUCTURE_FIRST, CONSERVATIVE>>
         ELSE <<STRUCTURE_FIRST, HIGH_DETAIL, CONSERVATIVE>>

\* Mutant: the template strategy appended after the quality strategies are
\* chosen is lost (the template is never consulted).
template_strategies_ignored(tmpl) == <<>>

\* "Always try template-guided first if template available"
template_strategies(tmpl) == IF tmpl THEN <<TEMPLATE_GUIDED>> ELSE <<>>

\* Mutant: the list is not limited to max_strategies.
_select_strategies_uncapped(quality_score, tmpl, maxs) ==
    unique_strategies(template_strategies(tmpl) \o quality_strategies(quality_score), {})

_select_strategies(quality_score, tmpl, maxs) ==
    SlicePrefix(unique_strategies(template_strategies(tmpl) \o
                                  quality_strategies(quality_score), {}), maxs)

\* A result dict returned by _execute_strategy. produced_by stands for the
\* identity of the dict: the strategy whose execution built it.
Result(strategy, valid, confidence) ==
    [produced_by |-> strategy, valid |-> valid, confidence_score |-> confidence,
     error_message |-> IF valid THEN NoneStr ELSE "failed"]

\* round(time.time() - start_time, 2): wall-clock time, an opaque value.
Elapsed == "elapsed"

\* attempt_info of a strategy that returned.
attempt_info(strategy, result) ==
    [strategy |-> strategy, duration_seconds |-> Elapsed, success |-> result.valid,
     confidence_score |-> result.confidence_score,
     error |-> IF ~result.valid THEN result.error_message ELSE NoneStr]

\* The entry of the except branch recorded as a success.
failed_attempt_as_success(strategy) ==
    [strategy |-> strategy, duration_seconds |-> Elapsed, success |-> TRUE,
     confidence_score |-> 0, error |-> "exception"]

\* The entry appended by the except branch.
failed_attempt(strategy) ==
    [strategy |-> strategy, duration_seconds |-> Elapsed, success |-> FALSE,
     confidence_score |-> 0, error |-> "exception"]

\* Mutant: a result as good as the running best replaces it (>= instead of >).
is_better_or_equal(result, best) == result.valid /\ result.confidence_score >= best

\* "Check if this result is better"
is_better(result, best) == result.valid /\ result.confidence_score > best

\* "If we achieve high confidence, stop trying"
target_achieved(current_confidence, minc) == current_confidence >= minc

\* next((a['strategy'] for a in attempt_history
\*       if a['confidence_score'] == best_confidence), 'unknown')
RECURSIVE best_strategy(_, _)
best_strategy(history, best) ==
    IF history = <<>> THEN "unknown"
    ELSE IF Head(history).confidence_score = best THEN Head(history).strategy
         ELSE best_strategy(Tail(history), best)

\* sum(1 for a in attempt_history if a['success'])
successful_attempts(history) ==
    Cardinality({i \in 1..Len(history) : history[i].success})

RetryIdle ==
    /\ retry_pc = "idle"
    /\ template = FALSE
    /\ image_quality = 0
    /\ max_strategies = 0
    /\ min_confidence = 0
    /\ selected_strategies = <<>>
    /\ strategy_index = 0
    /\ best_result = None
    /\ best_confidence = 0
    /\ attempt_history = <<>>
    /\ retry_returned = None

ApiIdle ==
    /\ api_pc = "idle"
    /\ max_retries = 0
    /\ attempt = 0
    /\ api_calls = <<>>
    /\ sleeps = <<>>
    /\ api_returned = None

StageIdle ==
    /\ stage_pc = "idle"
    /\ template_fields = None
    /\ structure_result = None
    /\ data_response = None
    /\ data_result = None
    /\ stage_calls = <<>>
    /\ stage_returned = None

ValidatorIdle ==
    /\ val_pc = "idle"
    /\ extraction_result = None
    /\ validation_result = None
    /\ validation_returned = None

ScorerIdle ==
    /\ scorer_pc = "idle"
    /\ scorer_input = None
    /\ scorer_output = None

TemplateIdle ==
    /\ sheet_template = None
    /\ created_template = None
    /\ template_uses = <<>>

LearningIdle ==
    /\ user_edits = <<>>
    /\ session_row = [edit_count |-> 0, fields_edited |-> <<>>, time_to_first_edit_set |-> FALSE]
    /\ profile_row = None
    /\ feedback = None
    /\ feedback_raised = FALSE
    /\ returned_edit = None

ProcessingIdle ==
    /\ proc_pc = "idle"
    /\ sheet_row = [status |-> "pending", error_message |-> "", confidence_score |-> 0,
                    needs_review |-> FALSE]
    /\ status_history = <<>>
    /\ proc_extraction = None
    /\ proc_learning = None
    /\ proc_raised = FALSE
    /\ proc_returned = None

RequestsIdle ==
    /\ profile_rows = <<>>
    /\ requests = <<>>

SessionsIdle ==
    /\ sessions = <<>>
    /\ user_profile = None
    /\ end_calls = 0

MatchingIdle ==
    /\ match_pc = "idle"
    /\ match_extracted = <<>>
    /\ match_known = <<>>
    /\ match_result = <<>>

\* The call extract_with_smart_retry(crew_sheet, template_id, max_strategies,
\* min_confidence), after the template lookup and the quality assessment.
InitRetry ==
    /\ retry_pc = "select"
    /\ template \in BOOLEAN
    /\ image_quality \in QualityScores
    /\ max_strategies \in 0..MaxMaxStrategies
    /\ min_confidence \in Confidences
    /\ selected_strategies = <<>>
    /\ strategy_index = 0
    /\ best_result = None
    /\ best_confidence = 0
    /\ attempt_history = <<>>
    /\ retry_returned = None
    /\ ApiIdle
    /\ StageIdle
    /\ ValidatorIdle
    /\ ScorerIdle
    /\ TemplateIdle
    /\ LearningIdle
    /\ ProcessingIdle
    /\ RequestsIdle
    /\ SessionsIdle
    /\ MatchingIdle

\* After one iteration of the for loop: break, or the next strategy, or the
\* end of the list.
AfterIteration(stop) ==
    IF stop \/ strategy_index = Len(selected_strategies)
    THEN /\ retry_pc' = "final"
         /\ strategy_index' = strategy_index
    ELSE /\ retry_pc' = "loop"
         /\ strategy_index' = strategy_index + 1

\* Mutant: the except branch leaves the loop (break instead of continue).
after_exception_break == AfterIteration(TRUE)

\* The except branch ends with "continue".
after_exception == AfterIteration(FALSE)

SelectStrategies ==
    /\ retry_pc = "select"
    /\ selected_strategies' = _select_strategies(image_quality, template, max_strategies)
    /\ best_result' = None
    /\ best_confidence' = 0
    /\ attempt_history' = <<>>
    /\ IF selected_strategies' = <<>>
       THEN retry_pc' = "final" /\ strategy_index' = 0
       ELSE retry_pc' = "loop" /\ strategy_index' = 1
    /\ UNCHANGED <<template, image_quality, max_strategies, min_confidence, retry_returned>>
    /\ UNCHANGED <<api_vars, stage_vars, val_vars, scorer_vars, tmpl_vars, learn_vars, proc_vars, req_vars, sess_vars, match_vars>>

\* One iteration whose _execute_strategy call returns a result dict.
StrategyReturns ==
    /\ retry_pc = "loop"
    /\ \E valid \in BOOLEAN, confidence \in Confidences :
         LET strategy == selected_strategies[strategy_index]
             result == Result(strategy, valid, confidence)
             better == is_better(result, best_confidence)
         IN /\ attempt_history' = Append(attempt_history, attempt_info(strategy, result))
            /\ best_result' = IF better THEN Some(result) ELSE best_result
            /\ best_confidence' = IF better THEN result.confidence_score
                                  ELSE best_confidence
            /\ AfterIteration(better /\ target_achieved(result.confidence_score,
                                                         min_confidence))
    /\ UNCHANGED <<template, image_quality, max_strategies, min_confidence,
                   selected_strategies, retry_returned>>
    /\ UNCHANGED <<api_vars, stage_vars, val_vars, scorer_vars, tmpl_vars, learn_vars, proc_vars, req_vars, sess_vars, match_vars>>

\* One iteration whose _execute_strategy call raises.
StrategyRaises ==
    /\ retry_pc = "loop"
    /\ attempt_history' = Append(attempt_history,
                                 failed_attempt(selected_strategies[strategy_index]))
    /\ after_exception
    /\ UNCHANGED <<template, image_quality, max_strategies, min_confidence,
                   selected_strategies, best_result, best_confidence, retry_returned>>
    /\ UNCHANGED <<api_vars, stage_vars, val_vars, scorer_vars, tmpl_vars, learn_vars, proc_vars, req_vars, sess_vars, match_vars>>

\* "Prepare final result": the branch that returns best_result.
ReturnBest ==
    /\ retry_pc = "final"
    /\ best_result # None
    /\ retry_returned' = Some(
         [valid |-> best_result[1].valid,
          error_message |-> best_result[1].error_message,
          produced_by |-> best_result[1].produced_by,
          confidence_score |-> best_result[1].confidence_score,
          retry_metadata |->
            [strategies_attempted |-> Len(attempt_history),
             successful_attempts |-> successful_attempts(attempt_history),
             best_strategy |-> best_strategy(attempt_history, best_confidence),
             attempt_history |-> attempt_history]])
    /\ retry_pc' = "done"
    /\ UNCHANGED <<template, image_quality, max_strategies, min_confidence,
                   selected_strategies, strategy_index, best_result, best_confidence,
                   attempt_history>>
    /\ UNCHANGED <<api_vars, stage_vars, val_vars, scorer_vars, tmpl_vars, learn_vars, proc_vars, req_vars, sess_vars, match_vars>>

\* "All strategies failed"
ReturnAllFailed ==
    /\ retry_pc = "final"
    /\ best_result = None
    /\ retry_returned' = Some(
         [valid |-> FALSE,
          error_message |-> "All retry strategies failed",
          retry_metadata |->
            [strategies_attempted |-> Len(attempt_history),
             successful_attempts |-> 0,
             attempt_history |-> attempt_history]])
    /\ retry_pc' = "done"
    /\ UNCHANGED <<template, image_quality, max_strategies, min_confidence,
                   selected_strategies, strategy_index, best_result, best_confidence,
                   attempt_history>>
    /\ UNCHANGED <<api_vars, stage_vars, val_vars, scorer_vars, tmpl_vars, learn_vars, proc_vars, req_vars, sess_vars, match_vars>>

NextRetry ==
    \/ SelectStrategies
    \/ StrategyReturns
    \/ StrategyRaises
    \/ ReturnBest
    \/ ReturnAllFailed

SpecRetry == InitRetry /\ [][NextRetry]_vars

(***************************************************************************)
(* Claims about SmartRetryService, checked under SpecRetry                 *)
(***************************************************************************)

AttemptedStrategies == [i \in 1..Len(attempt_history) |-> attempt_history[i].strategy]

NoAttemptSucceeded == \A i \in 1..Len(attempt_history) : ~attempt_history[i].success

\* C1: for every template presence, quality score and max_strategies >= 0 and
\* every outcome of the strategies, at most max_strategies strategies are
\* executed and none is executed twice: attempt_history is no longer than
\* max_strategies and its strategy names are pairwise distinct.
C1_AtMostMaxDistinctStrategies ==
    /\ Len(attempt_history) <= max_strategies
    /\ \A i, j \in 1..Len(attempt_history) :
         i # j => attempt_history[i].strategy # attempt_history[j].strategy
    /\ retry_returned # None =>
         /\ retry_returned[1].retry_metadata.attempt_history = attempt_history
         /\ retry_returned[1].retry_metadata.strategies_attempted <= max_strategies

C1_Witness ==
    /\ retry_pc = "done"
    /\ template
    /\ max_strategies = 4
    /\ Len(attempt_history) = 4

\* C2: as soon as an executed strategy returns a valid result whose
\* confidence_score is >= min_confidence, no further strategy is executed and
\* that result is the one returned, for every min_confidence and confidence.
C2_StopsAtFirstResultMeetingMinConfidence ==
    \A i \in 1..Len(attempt_history) :
        (attempt_history[i].success /\ attempt_history[i].confidence_score >= min_confidence)
        => /\ i = Len(attempt_history)
           /\ retry_pc # "loop"
           /\ retry_returned # None =>
                /\ retry_returned[1].valid
                /\ retry_returned[1].produced_by = attempt_history[i].strategy

\* The positions of the valid attempts with the highest confidence.
BestValidAttempts ==
    {i \in 1..Len(attempt_history) :
        /\ attempt_history[i].success
        /\ \A j \in 1..Len(attempt_history) :
             attempt_history[j].success =>
                attempt_history[j].confidence_score <= attempt_history[i].confidence_score}

EarliestBestValidAttempt == CHOOSE i \in BestValidAttempts : \A j \in BestValidAttempts : i <= j

\* C3: a valid result returned by extract_with_smart_retry is the result of
\* the executed strategy with the highest confidence_score among the executed
\* strategies whose result was valid, the earliest one on ties; the running
\* best is always that result, so a later valid result replaces it only when
\* its confidence is strictly greater.
C3_ReturnsEarliestHighestValidResult ==
    /\ best_result # None =>
         /\ BestValidAttempts # {}
         /\ best_result[1].valid
         /\ best_result[1].produced_by = attempt_history[EarliestBestValidAttempt].strategy
         /\ best_result[1].confidence_score =
               attempt_history[EarliestBestValidAttempt].confidence_score
         /\ best_confidence = best_result[1].confidence_score
    /\ (retry_returned # None /\ retry_returned[1].valid) =>
         /\ best_result # None
         /\ retry_returned[1].produced_by = best_result[1].produced_by
         /\ retry_returned[1].confidence_score = best_result[1].confidence_score

C3_Witness ==
    /\ retry_returned # None
    /\ retry_returned[1].valid
    /\ Len(attempt_history) = 3
    /\ attempt_history[1].success /\ attempt_history[1].confidence_score = 1
    /\ attempt_history[2].success /\ attempt_history[2].confidence_score = 1
    /\ retry_returned[1].produced_by = attempt_history[1].strategy

\* The list the claim describes, for a quality score in tenths.
C4_Described(quality_score, tmpl, maxs) ==
    LET by_quality ==
            IF quality_score < 4 THEN <<"aggressive", "high_detail", "structure_first">>
            ELSE IF quality_score < 7
                 THEN <<"high_detail", "structure_first", "conservative">>
                 ELSE <<"structure_first", "high_detail", "conservative">>
        all == IF tmpl THEN <<"template_guided">> \o by_quality ELSE by_quality
    IN [i \in 1..(IF maxs < Len(all) THEN maxs ELSE Len(all)) |-> all[i]]

\* C4: _select_strategies returns template_guided if a template is supplied,
\* followed by (aggressive, high_detail, structure_first) for quality < 0.4,
\* (high_detail, structure_first, conservative) for 0.4 <= quality < 0.7 and
\* (structure_first, high_detail, conservative) for quality >= 0.7, without
\* duplicates and cut to its first max_strategies entries; with a template
\* and max_strategies >= 1 the first strategy tried is template_guided.
C4_SelectedStrategiesAsDescribed ==
    retry_pc # "select" =>
        /\ selected_strategies = C4_Described(image_quality, template, max_strategies)
        /\ \A i, j \in 1..Len(selected_strategies) :
             i # j => selected_strategies[i] # selected_strategies[j]
        /\ (template /\ max_strategies >= 1) =>
             /\ selected_strategies[1] = "template_guided"
             /\ Len(attempt_history) >= 1 => attempt_history[1].strategy = "template_guided"

C4_Witness ==
    /\ retry_pc = "loop"
    /\ template
    /\ image_quality = 4
    /\ max_strategies = 3
    /\ selected_strategies = <<"template_guided", "high_detail", "structure_first">>

\* C5: if no selected strategy yields a valid result (each returns
\* valid=false or raises), the orchestrator returns valid=false with
\* error_message 'All retry strategies failed' and retry_metadata whose
\* attempt_history has one entry (strategy, duration_seconds, success,
\* confidence_score, error) per selected strategy in selection order,
\* strategies_attempted equal to its length and successful_attempts 0.
C5_AllFailedCarriesFullHistory ==
    (retry_returned # None /\ NoAttemptSucceeded) =>
        LET r == retry_returned[1]
            h == r.retry_metadata.attempt_history
        IN /\ r.valid = FALSE
           /\ r.error_message = "All retry strategies failed"
           /\ Len(h) = Len(selected_strategies)
           /\ \A i \in 1..Len(h) :
                /\ DOMAIN h[i] = {"strategy", "duration_seconds", "success",
                                  "confidence_score", "error"}
                /\ h[i].strategy = selected_strategies[i]
                /\ h[i].success = FALSE
           /\ r.retry_metadata.strategies_attempted = Len(h)
           /\ r.retry_metadata.successful_attempts = 0

C5_Witness ==
    /\ retry_returned # None
    /\ NoAttemptSucceeded
    /\ Len(attempt_history) = 3
    /\ attempt_history[1].error = "exception"
    /\ attempt_history[2].error = "failed"
    /\ attempt_history[3].error = "exception"

\* C6 as stated: with max_strategies = 5 and every strategy failing, five
\* strategies are attempted and the failure returned has valid=false, an
\* attempt_history of length 5 and successful_attempts 0.
C6_FiveFailuresGiveHistoryOfFive ==
    (retry_returned # None /\ max_strategies = 5 /\ NoAttemptSucceeded) =>
        /\ retry_returned[1].valid = FALSE
        /\ Len(retry_returned[1].retry_metadata.attempt_history) = 5
        /\ retry_returned[1].retry_metadata.successful_attempts = 0

\* C6 amended: with max_strategies = 5 and every strategy failing, every
\* selected strategy is attempted once, which is four strategies when a
\* template is supplied and three otherwise, and the failure returned has
\* valid=false, an attempt_history of that length and successful_attempts 0.
C6_FiveAllowedGiveHistoryOfSelected ==
    (retry_returned # None /\ max_strategies = 5 /\ NoAttemptSucceeded) =>
        /\ retry_returned[1].valid = FALSE
        /\ Len(retry_returned[1].retry_metadata.attempt_history) =
              (IF template THEN 4 ELSE 3)
        /\ AttemptedStrategies = selected_strategies
        /\ retry_returned[1].retry_metadata.successful_attempts = 0

C6_Witness ==
    /\ retry_returned # None
    /\ max_strategies = 5
    /\ template
    /\ NoAttemptSucceeded
    /\ Len(retry_returned[1].retry_metadata.attempt_history) = 4
    /\ retry_returned[1].valid = FALSE

(***************************************************************************)
(* Claims about the attempt history and the retry metadata, checked under  *)
(* SpecRetry                                                               *)
(***************************************************************************)

\* The entry at position i was appended by the except branch.
RaisedAttempt(i) == attempt_history[i].error = "exception"

\* C24: every executed strategy has exactly one entry in attempt_history,
\* in execution order; a strategy that raised is recorded with success
\* false, confidence 0.0 and the error text; the exception stays inside the
\* orchestrator, which goes on to the next selected strategy and returns.
C24_OneEntryPerExecutedStrategy ==
    /\ Len(attempt_history) <= Len(selected_strategies)
    /\ \A i \in 1..Len(attempt_history) :
          attempt_history[i].strategy = selected_strategies[i]
    /\ retry_pc = "loop" => Len(attempt_history) = strategy_index - 1
    /\ \A i \in 1..Len(attempt_history) :
          RaisedAttempt(i) =>
             /\ ~attempt_history[i].success
             /\ attempt_history[i].confidence_score = 0
             /\ attempt_history[i].error # NoneStr
             /\ (retry_pc \in {"final", "done"} /\ i < Len(selected_strategies)) =>
                    Len(attempt_history) > i
    /\ retry_pc = "done" =>
          /\ retry_returned # None
          /\ retry_returned[1].retry_metadata.attempt_history = attempt_history

\* The first strategy raised, the second was executed, and the call
\* returned with both in the history.
C24_Witness ==
    /\ retry_pc = "done"
    /\ Len(attempt_history) >= 2
    /\ RaisedAttempt(1)
    /\ ~RaisedAttempt(2)
    /\ retry_returned # None

\* C25 as stated: in every returned result successful_attempts is the
\* number of attempt_history entries with success = true, so 'All retry
\* strategies failed' is returned only when no attempt has success = true.
C25_SuccessfulAttemptsCountsSuccesses ==
    retry_returned # None =>
        /\ retry_returned[1].retry_metadata.successful_attempts
              = successful_attempts(attempt_history)
        /\ retry_returned[1].error_message = "All retry strategies failed" =>
              NoAttemptSucceeded

\* C26 as stated: in every valid result returned, best_strategy names the
\* strategy whose attempt produced that result.
C26_BestStrategyProducedTheResult ==
    (retry_returned # None /\ retry_returned[1].valid) =>
        retry_returned[1].retry_metadata.best_strategy = retry_returned[1].produced_by

(***************************************************************************)
(* OpenAIService: _call_openai_api_with_retry and _make_api_call           *)
(***************************************************************************)

\* The exceptions client.chat.completions.create may raise. In the openai
\* package APITimeoutError is an APIConnectionError, which is an APIError;
\* an APIError that is neither (authentication, bad request, ...) is
\* API_ERROR; OTHER_EXCEPTION is any exception that is no APIError.
API_TIMEOUT == "APITimeoutError"
API_CONNECTION == "APIConnectionError"
API_ERROR == "APIError"
OTHER_EXCEPTION == "Exception"
ExceptionKinds == {API_TIMEOUT, API_CONNECTION, API_ERROR, OTHER_EXCEPTION}

\* The largest max_retries passed to _call_openai_api_with_retry;
\* _make_api_call passes ApiMaxRetries.
MaxRetries == 3
ApiMaxRetries == 2

\* What the content of a response parses to: json.loads succeeds, only the
\* regex fallback succeeds, or neither does.
ParseOutcomes == {"json", "regex", "unparseable"}
\* The "valid" key of the parsed object.
ValidKeys == {"absent", "true", "false"}

RECURSIVE Pow2(_)
Pow2(n) == IF n = 0 THEN 1 ELSE 2 * Pow2(n - 1)

\* except (APITimeoutError, APIConnectionError, APIError) as e
caught_for_retry(kind) == kind \in {API_TIMEOUT, API_CONNECTION, API_ERROR}

\* Mutant: the backoff is also taken after the last attempt.
retry_again_always(att, maxr) == att < maxr

\* if attempt < max_retries - 1
retry_again(att, maxr) == att < maxr - 1

\* Mutant: a constant backoff of one second.
wait_time_constant(att) == 1

\* wait_time = (2 ** attempt)
wait_time(att) == Pow2(att)

\* The error_message prefix chosen by the except clauses of _make_api_call.
error_prefix(kind) ==
    IF kind = API_TIMEOUT THEN "API timeout: "
    ELSE IF kind = API_CONNECTION THEN "API connection error: "
    ELSE IF kind = API_ERROR THEN "API error: "
    ELSE "Unexpected error: "

\* The failure dict of _make_api_call; the message is the prefix followed by
\* str(e), e being identified by the call that raised it (0: no call).
api_failure(prefix, raised_by_call) ==
    [valid |-> FALSE, error_message |-> [prefix |-> prefix, error |-> raised_by_call],
     used_regex_fallback |-> FALSE]

\* The failure dict for an exception of this kind raised by this call.
raised_failure(kind, call) == api_failure(error_prefix(kind), call)

\* The dict _make_api_call returns for a response.
parsed_response(parse, valid_key) ==
    IF parse = "unparseable"
    THEN api_failure("Failed to parse JSON response: ", 0)
    ELSE [valid |-> valid_key # "false",
          error_message |-> [prefix |-> NoneStr, error |-> 0],
          used_regex_fallback |-> (parse = "regex")]

\* The call _make_api_call(client, messages), generalised to any max_retries.
InitApi ==
    /\ api_pc = "call"
    /\ max_retries \in 0..MaxRetries
    /\ attempt = 0
    /\ api_calls = <<>>
    /\ sleeps = <<>>
    /\ api_returned = None
    /\ RetryIdle
    /\ StageIdle
    /\ ValidatorIdle
    /\ ScorerIdle
    /\ TemplateIdle
    /\ LearningIdle
    /\ ProcessingIdle
    /\ RequestsIdle
    /\ SessionsIdle
    /\ MatchingIdle

\* One attempt whose API call returns a response.
ApiCallReturns ==
    /\ api_pc = "call"
    /\ attempt < max_retries
    /\ \E parse \in ParseOutcomes, valid_key \in ValidKeys :
         /\ api_calls' = Append(api_calls, [outcome |-> "response", kind |-> NoneStr])
         /\ api_returned' = Some(parsed_response(parse, valid_key))
    /\ api_pc' = "done"
    /\ UNCHANGED <<max_retries, attempt, sleeps>>
    /\ UNCHANGED <<retry_vars, stage_vars, val_vars, scorer_vars, tmpl_vars, learn_vars, proc_vars, req_vars, sess_vars, match_vars>>

\* One attempt whose API call raises: retried after the backoff, or raised
\* to _make_api_call, which turns it into a failure dict.
ApiCallRaises ==
    /\ api_pc = "call"
    /\ attempt < max_retries
    /\ \E kind \in ExceptionKinds :
         /\ api_calls' = Append(api_calls, [outcome |-> "raise", kind |-> kind])
         /\ IF caught_for_retry(kind) /\ retry_again(attempt, max_retries)
            THEN /\ sleeps' = Append(sleeps, [after_call |-> Len(api_calls'),
                                              seconds |-> wait_time(attempt)])
                 /\ attempt' = attempt + 1
                 /\ UNCHANGED <<api_pc, api_returned>>
            ELSE /\ api_returned' = Some(raised_failure(kind, Len(api_calls')))
                 /\ api_pc' = "done"
                 /\ UNCHANGED <<attempt, sleeps>>
    /\ UNCHANGED max_retries
    /\ UNCHANGED <<retry_vars, stage_vars, val_vars, scorer_vars, tmpl_vars, learn_vars, proc_vars, req_vars, sess_vars, match_vars>>

\* range(max_retries) is exhausted without a return or a raise: the function
\* returns None and response.choices raises in _make_api_call.
RetryLoopExhausted ==
    /\ api_pc = "call"
    /\ attempt >= max_retries
    /\ api_returned' = Some(api_failure(error_prefix(OTHER_EXCEPTION), 0))
    /\ api_pc' = "done"
    /\ UNCHANGED <<max_retries, attempt, api_calls, sleeps>>
    /\ UNCHANGED <<retry_vars, stage_vars, val_vars, scorer_vars, tmpl_vars, learn_vars, proc_vars, req_vars, sess_vars, match_vars>>

NextApi ==
    \/ ApiCallReturns
    \/ ApiCallRaises
    \/ RetryLoopExhausted

SpecApi == InitApi /\ [][NextApi]_vars

(***************************************************************************)
(* Claims about OpenAIService, checked under SpecApi                       *)
(***************************************************************************)

RaisedCalls == {i \in 1..Len(api_calls) : api_calls[i].outcome = "raise"}

\* C7: when the API call fails with an APIError that is neither a timeout
\* nor a connection failure, exactly one API call is made for the request,
\* no backoff sleep is performed and the failure {valid: false,
\* error_message} is returned immediately.
C7_PermanentApiErrorIsNotRetried ==
    (max_retries = ApiMaxRetries /\ api_calls # <<>> /\ api_calls[1].kind = API_ERROR) =>
        /\ Len(api_calls) = 1
        /\ sleeps = <<>>
        /\ api_returned # None
        /\ api_returned[1].valid = FALSE
        /\ api_returned[1].error_message = [prefix |-> "API error: ", error |-> 1]

OnlyTransientFailures ==
    \A i \in RaisedCalls : api_calls[i].kind \in {API_TIMEOUT, API_CONNECTION}

\* C8: for every sequence of timeout/connection failures the retry loop makes
\* at most max_retries API calls, sleeps 2^attempt seconds between calls only
\* (never after the last one) and terminates (every call is counted against
\* max_retries and some step is possible until the function has returned);
\* when the last call also fails, _make_api_call returns {valid: false,
\* error_message} built from that last error.
C8_BoundedRetriesWithBackoffBetweenCalls ==
    OnlyTransientFailures =>
        /\ Len(api_calls) <= max_retries
        /\ attempt <= max_retries
        /\ api_pc # "done" => (attempt = Len(api_calls) /\ ENABLED NextApi)
        /\ Len(sleeps) = Cardinality(RaisedCalls) - (IF api_pc = "done" /\ RaisedCalls # {}
                                                       /\ api_calls[Len(api_calls)].outcome = "raise"
                                                     THEN 1 ELSE 0)
        /\ \A i \in 1..Len(sleeps) :
             /\ sleeps[i].after_call = i
             /\ sleeps[i].seconds = Pow2(i - 1)
             /\ i < max_retries
             /\ api_pc = "done" => i < Len(api_calls)
        /\ (api_pc = "done" /\ api_calls # <<>>
              /\ api_calls[Len(api_calls)].outcome = "raise") =>
             /\ Len(api_calls) = max_retries
             /\ api_returned # None
             /\ api_returned[1].valid = FALSE
             /\ api_returned[1].error_message =
                   [prefix |-> IF api_calls[Len(api_calls)].kind = API_TIMEOUT
                               THEN "API timeout: " ELSE "API connection error: ",
                    error |-> Len(api_calls)]

C8_Witness ==
    /\ api_pc = "done"
    /\ max_retries = ApiMaxRetries
    /\ Len(api_calls) = 2
    /\ api_calls[1].kind = API_CONNECTION
    /\ api_calls[2].kind = API_TIMEOUT
    /\ sleeps = <<[after_call |-> 1, seconds |-> 1]>>
    /\ api_returned[1].valid = FALSE

(***************************************************************************)
(* MultiStageExtractor.extract_with_stages                                 *)
(***************************************************************************)

\* The column names of the modelled sheets: the employee key 'name', a
\* header of the employee section and a header of the time section.
Columns == {"name", "EMPLOYEE_NAME", "START_IN"}

\* The largest number of employee records in a data-stage response.
MaxEmployees == 2

\* Confidence scores of this pipeline are in hundredths.
DefaultConfidence == 80
MinConfidence == 10
MissingColumnPenalty == 5
MissingInDataPenalty == 3
MissingExpectedFieldPenalty == 2

\* x in list
has(list, x) == \E i \in 1..Len(list) : list[i] = x
\* set(list)
set_of(list) == {list[i] : i \in 1..Len(list)}

\* content_sections of a structure-stage response: an ordered dict of
\* sections, each with 'present' and 'columns'.
ContentSections ==
    {<<[name |-> "employee_info", present |-> p1, columns |-> c1],
       [name |-> "time_tracking", present |-> p2, columns |-> c2]>> :
        p1 \in BOOLEAN, c1 \in {<<>>, <<"EMPLOYEE_NAME">>},
        p2 \in BOOLEAN, c2 \in {<<>>, <<"START_IN">>, <<"START_IN", "EMPLOYEE_NAME">>}}

\* table_headers of a data-stage response (a response without the key
\* behaves as one with the empty list: .get('table_headers', [])).
HeaderLists ==
    {<<>>, <<"EMPLOYEE_NAME">>, <<"START_IN">>, <<"EMPLOYEE_NAME", "START_IN">>,
     <<"name", "EMPLOYEE_NAME">>}

\* An employee record of a response: a dict from some columns to extracted
\* (non-empty) values.
EmployeeRecords == {[k \in K |-> "x"] : K \in SUBSET Columns}
EmployeeLists == UNION {[1..n -> EmployeeRecords] : n \in 0..MaxEmployees}

\* confidence_score of a data-stage response: absent, or reported.
ReportedConfidences == {None, Some(12)}

\* The valid data-stage responses.
DataResponses ==
    {[valid |-> TRUE, table_headers |-> h, employees |-> e, confidence_score |-> c] :
        h \in HeaderLists, e \in EmployeeLists, c \in ReportedConfidences}

\* The expected_fields of the template, when one is given.
TemplateChoices == {None, Some({"EMPLOYEE_NAME", "START_IN"})}

\* result.get('confidence_score', default)
get_confidence(result, default) ==
    IF result.confidence_score = None THEN default ELSE result.confidence_score[1]

\* expected_headers of _align_data_with_structure: the columns of the
\* present sections, in order.
RECURSIVE expected_headers(_)
expected_headers(sections) ==
    IF sections = <<>> THEN <<>>
    ELSE (IF Head(sections).present THEN Head(sections).columns ELSE <<>>)
         \o expected_headers(Tail(sections))

\* "Add missing headers that were expected"
RECURSIVE add_missing_headers(_, _)
add_missing_headers(extracted_headers, expected) ==
    IF expected = <<>> THEN extracted_headers
    ELSE add_missing_headers(
            IF has(extracted_headers, Head(expected)) THEN extracted_headers
            ELSE Append(extracted_headers, Head(expected)),
            Tail(expected))

\* Mutant: the employee record is left as extracted.
fill_missing_fields_skipped(employee, headers) == employee

\* "Ensure employee data has all expected fields": employee[header] = ''
fill_missing_fields(employee, headers) ==
    [k \in DOMAIN employee \cup set_of(headers) |->
        IF k \in DOMAIN employee THEN employee[k] ELSE ""]

_align_data_with_structure(data, structure) ==
    LET headers == add_missing_headers(data.table_headers,
                                       expected_headers(structure.content_sections))
    IN [data EXCEPT
          !.table_headers = headers,
          !.employees = [i \in 1..Len(data.employees) |->
                            fill_missing_fields(data.employees[i], headers)]]

\* missing_columns of one section in _cross_validate_and_enhance.
missing_columns(section, extracted_headers) ==
    IF section.present
    THEN SelectSeq(section.columns, LAMBDA col : ~has(extracted_headers, col))
    ELSE <<>>

\* The issues and the number of columns missing over the sections.
RECURSIVE missing_column_issues(_, _)
missing_column_issues(sections, extracted_headers) ==
    IF sections = <<>> THEN <<>>
    ELSE LET missing == missing_columns(Head(sections), extracted_headers)
         IN (IF missing # <<>>
             THEN <<[kind |-> "Missing expected columns", section |-> Head(sections).name,
                     columns |-> set_of(missing)]>>
             ELSE <<>>)
            \o missing_column_issues(Tail(sections), extracted_headers)

RECURSIVE missing_column_count(_, _)
missing_column_count(sections, extracted_headers) ==
    IF sections = <<>> THEN 0
    ELSE Len(missing_columns(Head(sections), extracted_headers))
         + missing_column_count(Tail(sections), extracted_headers)

\* Mutant: extra fields are reported also when 'name' is among them.
extra_fields_reported_with_name(extra_in_data) == extra_in_data # {}

\* if extra_in_data and 'name' not in extra_in_data
extra_fields_reported(extra_in_data) == extra_in_data # {} /\ "name" \notin extra_in_data

\* The issues of the "Check data consistency" block.
consistency_issues(employees, extracted_headers) ==
    IF employees = <<>> THEN <<>>
    ELSE LET first_employee_fields == DOMAIN employees[1]
             header_fields == set_of(extracted_headers)
             missing_in_data == header_fields \ first_employee_fields
             extra_in_data == first_employee_fields \ header_fields
         IN (IF missing_in_data # {}
             THEN <<[kind |-> "Headers defined but missing in data", section |-> NoneStr,
                     columns |-> missing_in_data]>>
             ELSE <<>>)
            \o
            (IF extra_fields_reported(extra_in_data)
             THEN <<[kind |-> "Data fields not in headers", section |-> NoneStr,
                     columns |-> extra_in_data]>>
             ELSE <<>>)

missing_in_data_count(employees, extracted_headers) ==
    IF employees = <<>> THEN 0
    ELSE Cardinality(set_of(extracted_headers) \ DOMAIN employees[1])

\* _enhance_with_template_knowledge: the confidence after the template check.
template_confidence(confidence, headers, tmpl_fields) ==
    IF tmpl_fields = None THEN confidence
    ELSE LET missing_expected == tmpl_fields[1] \ set_of(headers)
         IN IF missing_expected # {}
            THEN Max(MinConfidence,
                     confidence - MissingExpectedFieldPenalty * Cardinality(missing_expected))
            ELSE confidence

\* The company profile only adds company_enhancement metadata and is not
\* modelled.
_cross_validate_and_enhance(structure, data, tmpl_fields) ==
    LET extracted_headers == data.table_headers
        sections == structure.content_sections
        validation_issues == missing_column_issues(sections, extracted_headers)
                             \o consistency_issues(data.employees, extracted_headers)
        confidence_adjustments ==
            0 - MissingColumnPenalty * missing_column_count(sections, extracted_headers)
              - MissingInDataPenalty * missing_in_data_count(data.employees, extracted_headers)
        original_confidence == get_confidence(data, DefaultConfidence)
        adjusted_confidence == Max(MinConfidence, original_confidence + confidence_adjustments)
    IN [valid |-> data.valid,
        table_headers |-> data.table_headers,
        employees |-> data.employees,
        confidence_score |->
            Some(template_confidence(adjusted_confidence, data.table_headers, tmpl_fields)),
        validation |->
            [cross_validation_performed |-> TRUE,
             validation_issues |-> validation_issues,
             confidence_adjustment |-> confidence_adjustments,
             original_confidence |-> original_confidence,
             structure_data_alignment |-> (validation_issues = <<>>)],
        stages_completed |-> 3]

\* Confidence of the structure stage, in hundredths.
StructureIssuePenalty == 10
StructureMinConfidence == 30

\* 'layout' of a structure-stage response: one plausible layout and one
\* layout for each of the three layout checks.
Layouts ==
    {[header_rows |-> 1, data_rows |-> 1, column_count |-> 2],
     [header_rows |-> 0, data_rows |-> 1, column_count |-> 2],
     [header_rows |-> 1, data_rows |-> 0, column_count |-> 2],
     [header_rows |-> 1, data_rows |-> 1, column_count |-> 1]}

\* The valid structure-stage responses (none reports a confidence_score).
StructureResponses ==
    {[valid |-> TRUE, layout |-> l, content_sections |-> sections,
      confidence_score |-> None, validation_issues |-> <<>>] :
        l \in Layouts, sections \in ContentSections}

\* content_sections.get('employee_info', {}).get('present', False)
employee_info_present(sections) ==
    \E i \in 1..Len(sections) : sections[i].name = "employee_info" /\ sections[i].present

\* issues of _validate_structure_analysis.
structure_issues(structure) ==
    (IF structure.layout.header_rows < 1 THEN <<"No header rows detected">> ELSE <<>>)
    \o (IF structure.layout.data_rows < 1 THEN <<"No data rows detected">> ELSE <<>>)
    \o (IF structure.layout.column_count < 2 THEN <<"Too few columns detected">> ELSE <<>>)
    \o (IF ~employee_info_present(structure.content_sections)
        THEN <<"No employee information section detected">> ELSE <<>>)

\* The issues only change the structure result's own confidence_score and
\* validation_issues.
_validate_structure_analysis(structure) ==
    LET issues == structure_issues(structure)
    IN IF ~structure.valid \/ issues = <<>> THEN structure
       ELSE [structure EXCEPT
               !.confidence_score =
                   Some(Max(StructureMinConfidence,
                            get_confidence(structure, DefaultConfidence)
                              - StructureIssuePenalty * Len(issues))),
               !.validation_issues = issues]

\* The failure dicts with the stage left unnamed.
stage_failure_unnamed(error_message, stage_failed) ==
    [valid |-> FALSE, error_message |-> error_message, stage_failed |-> "pipeline_error"]

\* The failure dicts of extract_with_stages.
stage_failure(error_message, stage_failed) ==
    [valid |-> FALSE, error_message |-> error_message, stage_failed |-> stage_failed]

\* The call extract_with_stages(image_path, template, company_profile, ...),
\* after the optional preprocessing.
InitStages ==
    /\ stage_pc = "structure"
    /\ template_fields \in TemplateChoices
    /\ structure_result = None
    /\ data_response = None
    /\ data_result = None
    /\ stage_calls = <<>>
    /\ stage_returned = None
    /\ RetryIdle
    /\ ApiIdle
    /\ ValidatorIdle
    /\ ScorerIdle
    /\ TemplateIdle
    /\ LearningIdle
    /\ ProcessingIdle
    /\ RequestsIdle
    /\ SessionsIdle
    /\ MatchingIdle

\* Stage 1 returns a valid structure, validated by _analyze_structure.
StructureAnalysisSucceeds ==
    /\ stage_pc = "structure"
    /\ \E response \in StructureResponses :
         structure_result' = Some(_validate_structure_analysis(response))
    /\ stage_calls' = Append(stage_calls, "structure_analysis")
    /\ stage_pc' = "data"
    /\ UNCHANGED <<template_fields, data_response, data_result, stage_returned>>
    /\ UNCHANGED <<retry_vars, api_vars, val_vars, scorer_vars, tmpl_vars, learn_vars, proc_vars, req_vars, sess_vars, match_vars>>

\* Stage 1 returns valid=false (the API call failed or raised inside
\* _analyze_structure).
StructureAnalysisFails ==
    /\ stage_pc = "structure"
    /\ structure_result' = Some([valid |-> FALSE, content_sections |-> <<>>])
    /\ stage_calls' = Append(stage_calls, "structure_analysis")
    /\ stage_returned' = Some(stage_failure("Structure analysis failed", "structure_analysis"))
    /\ stage_pc' = "done"
    /\ UNCHANGED <<template_fields, data_response, data_result>>
    /\ UNCHANGED <<retry_vars, api_vars, val_vars, scorer_vars, tmpl_vars, learn_vars, proc_vars, req_vars, sess_vars, match_vars>>

\* Stage 2 gets a valid response and aligns it with the structure.
DataExtractionSucceeds ==
    /\ stage_pc = "data"
    /\ \E response \in DataResponses :
         /\ data_response' = Some(response)
         /\ data_result' = Some(_align_data_with_structure(response, structure_result[1]))
    /\ stage_calls' = Append(stage_calls, "data_extraction")
    /\ stage_pc' = "cross"
    /\ UNCHANGED <<template_fields, structure_result, stage_returned>>
    /\ UNCHANGED <<retry_vars, api_vars, val_vars, scorer_vars, tmpl_vars, learn_vars, proc_vars, req_vars, sess_vars, match_vars>>

\* Stage 2 returns valid=false (the API call failed or raised inside
\* _extract_data_with_structure).
DataExtractionFails ==
    /\ stage_pc = "data"
    /\ data_result' = Some([valid |-> FALSE])
    /\ stage_calls' = Append(stage_calls, "data_extraction")
    /\ stage_returned' = Some(stage_failure("Data extraction failed", "data_extraction"))
    /\ stage_pc' = "done"
    /\ UNCHANGED <<template_fields, structure_result, data_response>>
    /\ UNCHANGED <<retry_vars, api_vars, val_vars, scorer_vars, tmpl_vars, learn_vars, proc_vars, req_vars, sess_vars, match_vars>>

\* Stage 3 and the return of the final result.
CrossValidation ==
    /\ stage_pc = "cross"
    /\ stage_calls' = Append(stage_calls, "cross_validation")
    /\ stage_returned' = Some(_cross_validate_and_enhance(structure_result[1], data_result[1],
                                                         template_fields))
    /\ stage_pc' = "done"
    /\ UNCHANGED <<template_fields, structure_result, data_response, data_result>>
    /\ UNCHANGED <<retry_vars, api_vars, val_vars, scorer_vars, tmpl_vars, learn_vars, proc_vars, req_vars, sess_vars, match_vars>>

\* An exception raised outside the stages' own try blocks (building a
\* prompt, cross-validating) is caught by extract_with_stages.
PipelineError ==
    /\ stage_pc \in {"structure", "data", "cross"}
    /\ stage_returned' = Some(stage_failure("Multi-stage extraction failed", "pipeline_error"))
    /\ stage_pc' = "done"
    /\ UNCHANGED <<template_fields, structure_result, data_response, data_result, stage_calls>>
    /\ UNCHANGED <<retry_vars, api_vars, val_vars, scorer_vars, tmpl_vars, learn_vars, proc_vars, req_vars, sess_vars, match_vars>>

NextStages ==
    \/ StructureAnalysisSucceeds
    \/ StructureAnalysisFails
    \/ DataExtractionSucceeds
    \/ DataExtractionFails
    \/ CrossValidation
    \/ PipelineError

SpecStages == InitStages /\ [][NextStages]_vars

(***************************************************************************)
(* Claims about MultiStageExtractor, checked under SpecStages              *)
(***************************************************************************)

ReturnedValid == stage_returned # None /\ stage_returned[1].valid

\* C9: in every valid result of extract_with_stages every name in
\* table_headers, including the columns only the structure stage listed, is
\* a key of every employee record, the keys the response lacked having been
\* filled with the empty string.
C9_EveryHeaderIsKeyOfEveryEmployee ==
    ReturnedValid =>
        LET r == stage_returned[1]
            response == data_response[1]
        IN /\ \A col \in set_of(expected_headers(structure_result[1].content_sections)) :
                has(r.table_headers, col)
           /\ \A col \in set_of(response.table_headers) : has(r.table_headers, col)
           /\ Len(r.employees) = Len(response.employees)
           /\ \A i \in 1..Len(r.employees) :
                /\ \A h \in set_of(r.table_headers) : h \in DOMAIN r.employees[i]
                /\ \A k \in DOMAIN r.employees[i] :
                     r.employees[i][k] = IF k \in DOMAIN response.employees[i]
                                         THEN response.employees[i][k] ELSE ""

C9_Witness ==
    /\ ReturnedValid
    /\ data_response[1].table_headers = <<"EMPLOYEE_NAME">>
    /\ has(stage_returned[1].table_headers, "START_IN")
    /\ Len(stage_returned[1].employees) = 2
    /\ DOMAIN data_response[1].employees[2] = {"name"}
    /\ stage_returned[1].employees[2] =
          [name |-> "x", EMPLOYEE_NAME |-> "", START_IN |-> ""]

\* C10 as stated: in every valid result of extract_with_stages every key of
\* any employee record, 'name' and the keys of later records included, also
\* appears in table_headers.
C10_EveryEmployeeKeyIsHeader ==
    ReturnedValid =>
        \A i \in 1..Len(stage_returned[1].employees) :
            \A k \in DOMAIN stage_returned[1].employees[i] :
                has(stage_returned[1].table_headers, k)

\* C10 amended: in every valid result of extract_with_stages table_headers
\* holds exactly the data-stage headers and the expected columns of the
\* structure stage (employee keys are never added to it); the keys of the
\* first employee record that are absent from table_headers are reported in
\* validation.validation_issues as data fields not in headers, unless 'name'
\* is one of them, and the keys of later records are not checked.
C10_ExtraEmployeeKeysAreReportedNotAdded ==
    ReturnedValid =>
        LET r == stage_returned[1]
            extra == IF r.employees = <<>> THEN {}
                     ELSE DOMAIN r.employees[1] \ set_of(r.table_headers)
            reports == {i \in 1..Len(r.validation.validation_issues) :
                           r.validation.validation_issues[i].kind = "Data fields not in headers"}
        IN /\ set_of(r.table_headers) =
                 set_of(data_response[1].table_headers)
                 \cup set_of(expected_headers(structure_result[1].content_sections))
           /\ (extra # {} /\ "name" \notin extra) <=> reports # {}
           /\ \A i \in reports : r.validation.validation_issues[i].columns = extra
           /\ reports # {} => ~r.validation.structure_data_alignment

C10_Witness ==
    /\ ReturnedValid
    /\ stage_returned[1].table_headers = <<"name", "EMPLOYEE_NAME">>
    /\ Len(stage_returned[1].employees) = 1
    /\ DOMAIN stage_returned[1].employees[1] = Columns
    /\ \E i \in 1..Len(stage_returned[1].validation.validation_issues) :
          stage_returned[1].validation.validation_issues[i] =
             [kind |-> "Data fields not in headers", section |-> NoneStr,
              columns |-> {"START_IN"}]

\* The expected columns (those of the present sections of the structure
\* stage) that the data-stage response left out of its table_headers.
OmittedExpectedColumns ==
    set_of(expected_headers(structure_result[1].content_sections))
        \ set_of(data_response[1].table_headers)

\* C11 as stated: when the data-stage response omits expected columns from
\* its table_headers, the valid final result carries a missing-expected-
\* columns issue in validation.validation_issues and its confidence_score is
\* at most the response's confidence lowered by 0.05 for each such column
\* (floored at 0.1).
C11_OmittedExpectedColumnsArePenalised ==
    (ReturnedValid /\ OmittedExpectedColumns # {}) =>
        LET r == stage_returned[1]
        IN /\ \E i \in 1..Len(r.validation.validation_issues) :
                r.validation.validation_issues[i].kind = "Missing expected columns"
           /\ r.confidence_score[1] <=
                 Max(MinConfidence,
                     get_confidence(data_response[1], DefaultConfidence)
                       - MissingColumnPenalty * Cardinality(OmittedExpectedColumns))

\* C12 as stated: a valid structure with structural issues does not make
\* extract_with_stages fail at the structure stage, and the valid final
\* result has a lower confidence_score than the same data-stage response
\* gets with the same structure freed of its issues (a plausible layout and
\* a present employee_info section).
PlausibleLayout == [header_rows |-> 1, data_rows |-> 1, column_count |-> 2]

PlausibleCounterpart(structure) ==
    [structure EXCEPT
        !.layout = PlausibleLayout,
        !.content_sections =
            [i \in 1..Len(@) |-> IF @[i].name = "employee_info"
                                 THEN [@[i] EXCEPT !.present = TRUE] ELSE @[i]],
        !.confidence_score = None,
        !.validation_issues = <<>>]

C12_StructuralIssuesLowerFinalConfidence ==
    (structure_result # None /\ structure_result[1].valid
       /\ structure_result[1].validation_issues # <<>>) =>
        /\ stage_returned # None =>
              (stage_returned[1].valid \/ stage_returned[1].stage_failed # "structure_analysis")
        /\ ReturnedValid =>
              LET plausible == PlausibleCounterpart(structure_result[1])
                  reference == _cross_validate_and_enhance(
                                  plausible,
                                  _align_data_with_structure(data_response[1], plausible),
                                  template_fields)
              IN stage_returned[1].confidence_score[1] < reference.confidence_score[1]

(***************************************************************************)
(* Claims about the order of the stages, checked under SpecStages          *)
(***************************************************************************)

StageOrder == <<"structure_analysis", "data_extraction", "cross_validation">>

\* C23: the stages run in the order structure analysis, data extraction,
\* cross-validation; data extraction is called only after a valid
\* structure result and cross-validation only after a valid data result;
\* a failed stage ends the call with valid=false and stage_failed naming
\* it, and no later stage has run.
C23_StagesRunInOrder ==
    /\ Len(stage_calls) <= 3
    /\ \A i \in 1..Len(stage_calls) : stage_calls[i] = StageOrder[i]
    /\ has(stage_calls, "data_extraction") =>
          structure_result # None /\ structure_result[1].valid
    /\ has(stage_calls, "cross_validation") =>
          data_result # None /\ data_result[1].valid
    /\ (structure_result # None /\ ~structure_result[1].valid) =>
          /\ stage_returned =
                Some(stage_failure("Structure analysis failed", "structure_analysis"))
          /\ stage_returned[1].stage_failed = "structure_analysis"
          /\ stage_calls = <<"structure_analysis">>
    /\ (data_result # None /\ ~data_result[1].valid) =>
          /\ stage_returned[1].valid = FALSE
          /\ stage_returned[1].stage_failed = "data_extraction"
          /\ stage_calls = <<"structure_analysis", "data_extraction">>
    /\ (stage_returned # None /\ ~stage_returned[1].valid) =>
          /\ stage_returned[1].stage_failed
                \in {"structure_analysis", "data_extraction", "pipeline_error"}
          /\ ~has(stage_calls, "cross_validation")
    /\ stage_pc = "done" <=> stage_returned # None

\* Data extraction failed after a valid structure analysis: the call
\* returned naming it, without cross-validation.
C23_Witness ==
    /\ stage_returned # None
    /\ ~stage_returned[1].valid
    /\ stage_returned[1].stage_failed = "data_extraction"
    /\ structure_result[1].valid
    /\ stage_calls = <<"structure_analysis", "data_extraction">>

(***************************************************************************)
(* ContextAwareValidator.validate_extraction_with_context                  *)
(***************************************************************************)

\* A header (field name) is the sequence of its '_'-separated tokens, so
\* that '_'.join and split('_') are structural. These are the headers of
\* the sheet the extraction prompt shows (services.py: "table_headers").
NAME == <<"name">>
START_IN == <<"START", "IN">>
BREAK1_OUT == <<"BREAK1", "OUT">>
BREAK1_IN == <<"BREAK1", "IN">>
LUNCH_OUT == <<"LUNCH", "OUT">>
LUNCH_IN == <<"LUNCH", "IN">>
END_TIME == <<"END">>
KW13_ZERO_JOB_NO_HRS == <<"KW13", "ZERO", "JOB", "NO", "HRS">>
KW13_ZERO_JOB_PIECE_WORK == <<"KW13", "ZERO", "JOB", "PIECE", "WORK">>
KW13_ZERO_JOB_HRS == <<"KW13", "ZERO", "JOB", "HRS">>
KW13_ZERO_JOB_PCS == <<"KW13", "ZERO", "JOB", "PCS">>
TOTAL_HRS == <<"TOTAL", "HRS">>
EMPLOYEE_NAME == <<"EMPLOYEE", "NAME">>
LUNCH_END == <<"LUNCH", "END">>
START_STOP == <<"START", "STOP">>

\* The headers in the order Python compares the joined strings.
SortedFieldNames ==
    <<BREAK1_IN, BREAK1_OUT, EMPLOYEE_NAME, END_TIME, KW13_ZERO_JOB_HRS, KW13_ZERO_JOB_NO_HRS, KW13_ZERO_JOB_PCS,
      KW13_ZERO_JOB_PIECE_WORK, LUNCH_END, LUNCH_IN, LUNCH_OUT, START_IN, START_STOP, TOTAL_HRS, NAME>>

\* keyword in token: equal, or one of the proper substrings that occur
\* among the tokens above.
token_contains(token, keyword) ==
    token = keyword \/ <<token, keyword>> \in {<<"BREAK1", "BREAK">>}

\* token.upper(): 'name' is the only token that is not upper case.
upper(token) == IF token = "name" THEN "NAME" ELSE token

\* keyword in h.upper() (no keyword has an underscore, so a match lies
\* within one token).
contains(h, keyword) == \E i \in 1..Len(h) : token_contains(upper(h[i]), keyword)

contains_any(h, keywords) == \E keyword \in keywords : contains(h, keyword)

\* A cell is the string the extraction produced for a field: '', the check
\* mark, a word that is no number, a clock time "h:mm", a decimal number
\* given in hundredths (written without a point when it is whole), or a
\* text of several words.
EMPTY == <<"empty">>
CHECK == <<"check">>
TEXT == <<"text">>
clock(h, m) == <<"clock", h, m>>
number(hundredths) == <<"number", hundredths>>
\* a text of words separated by single spaces
words(w) == <<"words", w>>
JOHN_SMITH == words(<<"John", "Smith">>)

\* employee.get(field, '')
get(employee, field) == IF field \in DOMAIN employee THEN employee[field] ELSE EMPTY

\* employee.get('name', 'Unknown')
get_name(employee) ==
    IF NAME \in DOMAIN employee THEN employee[NAME] ELSE words(<<"Unknown">>)

\* value and value != the check mark
is_value(cell) == cell # EMPTY /\ cell # CHECK

\* _parse_time_value: minutes since midnight, or None.
_parse_time_value(cell) ==
    CASE cell[1] = "clock" -> Some(cell[2] * 60 + cell[3])
      [] cell[1] = "number" -> Some((cell[2] * 60) \div 100)
      [] OTHER -> None

\* matching_fields.sort(key=lambda x: ('OUT' in x.upper(), x)): False sorts
\* before True, so the fields without OUT come first.
sort_out_key(fields) ==
    SelectSeq(SortedFieldNames, LAMBDA f : has(fields, f) /\ ~contains(f, "OUT"))
    \o SelectSeq(SortedFieldNames, LAMBDA f : has(fields, f) /\ contains(f, "OUT"))

order_patterns == <<"START", "BREAK1", "LUNCH", "BREAK2", "END", "STOP">>

RECURSIVE ordered_by_patterns(_, _)
ordered_by_patterns(patterns, time_fields) ==
    IF patterns = <<>> THEN <<>>
    ELSE sort_out_key(SelectSeq(time_fields, LAMBDA f : contains(f, Head(patterns))))
         \o ordered_by_patterns(Tail(patterns), time_fields)

_get_time_field_order(time_fields) ==
    LET ordered_fields == ordered_by_patterns(order_patterns, time_fields)
    IN ordered_fields
       \o SelectSeq(SortedFieldNames,
                    LAMBDA f : has(time_fields, f) /\ ~has(ordered_fields, f))

\* Confidences and accuracies of the validator are in ten-thousandths.
One == 10000

\* a / b of two counters as a ratio in ten-thousandths
ratio(a, b) == (a * One) \div b

\* employee_times of one employee: (field, parsed_time, time_str) of the
\* fields whose value parses to a truthy number of minutes.
RECURSIVE employee_times(_, _)
employee_times(employee, fields) ==
    IF fields = <<>> THEN <<>>
    ELSE LET time_str == get(employee, Head(fields))
             parsed_time == IF is_value(time_str) THEN _parse_time_value(time_str) ELSE None
         IN (IF parsed_time # None /\ parsed_time[1] # 0
             THEN <<[field |-> Head(fields), minutes |-> parsed_time[1], time_str |-> time_str]>>
             ELSE <<>>)
            \o employee_times(employee, Tail(fields))

\* The corrections one employee adds to corrections_suggested.
sequence_errors(employee, times) ==
    LET bad == SelectSeq([i \in 1..(Len(times) - 1) |-> i + 1],
                         LAMBDA i : times[i].minutes <= times[i - 1].minutes)
    IN [k \in 1..Len(bad) |->
          [employee |-> get_name(employee),
           earlier |-> times[bad[k] - 1].field,
           later |-> times[bad[k]].field]]

TimeKeywords == {"START", "BREAK", "LUNCH", "END", "STOP"}

RECURSIVE time_sequence_loop(_, _, _)
time_sequence_loop(employees, order, acc) ==
    IF employees = <<>> THEN acc
    ELSE LET times == employee_times(Head(employees), order)
             errors == IF Len(times) >= 2 THEN sequence_errors(Head(employees), times) ELSE <<>>
         IN time_sequence_loop(
               Tail(employees), order,
               [acc EXCEPT
                  !.valid_sequences = @ + (IF Len(times) >= 2 /\ errors = <<>> THEN 1 ELSE 0),
                  !.invalid_sequences = @ + (IF errors # <<>> THEN 1 ELSE 0),
                  !.corrections_suggested = @ \o errors])

_validate_time_sequences(employees, headers) ==
    LET time_validation == [valid_sequences |-> 0, invalid_sequences |-> 0,
                            corrections_suggested |-> <<>>, patterns_detected |-> <<>>,
                            confidence_impact |-> 0]
        time_fields == SelectSeq(headers, LAMBDA h : contains_any(h, TimeKeywords))
    IN IF Len(time_fields) < 2 THEN time_validation
       ELSE LET counted == time_sequence_loop(employees, _get_time_field_order(time_fields),
                                              time_validation)
                total_sequences == counted.valid_sequences + counted.invalid_sequences
            IN IF total_sequences = 0 THEN counted
               ELSE LET sequence_accuracy == ratio(counted.valid_sequences, total_sequences)
                    IN [counted EXCEPT
                          !.confidence_impact = ((sequence_accuracy - 8000) * 2) \div 10,
                          !.patterns_detected =
                              IF sequence_accuracy > 9000
                              THEN <<"Excellent time sequence consistency">>
                              ELSE IF sequence_accuracy < 7000
                              THEN <<"Frequent time sequence errors detected">>
                              ELSE <<>>]

\* float(value.replace(',', '')) in hundredths, or None for ValueError.
parse_float(cell) == IF cell[1] = "number" THEN Some(cell[2]) ELSE None

\* abs(x)
abs(x) == IF x < 0 THEN 0 - x ELSE x

\* The tolerance of the total check, in hundredths of an hour.
Tolerance == 10

TotalKeywords == {"TOTAL"}
HourKeywords == {"HRS", "HOURS", "WORK"}

\* The hour fields of the headers that contribute to the sum of one
\* employee: the fields with a value that parses as a float.
contributing(employee, hour_fields) ==
    SelectSeq(hour_fields,
              LAMBDA f : is_value(get(employee, f)) /\ parse_float(get(employee, f)) # None)

RECURSIVE sum_fields(_, _)
sum_fields(employee, fields) ==
    IF fields = <<>> THEN 0
    ELSE parse_float(get(employee, Head(fields)))[1] + sum_fields(employee, Tail(fields))

\* The check of one total field of one employee, folded into math_validation.
check_total(math_validation, employee, total_field, hour_fields) ==
    LET total_value_str == get(employee, total_field)
        expected_total == parse_float(total_value_str)
        contributing_fields == contributing(employee, hour_fields)
        calculated_total == sum_fields(employee, contributing_fields)
    IN IF ~is_value(total_value_str) \/ expected_total = None \/ contributing_fields = <<>>
       THEN math_validation
       ELSE LET difference == abs(expected_total[1] - calculated_total)
            IN IF difference <= Tolerance
               THEN [math_validation EXCEPT !.total_checks = @ + 1,
                                            !.valid_calculations = @ + 1]
               ELSE [math_validation EXCEPT
                       !.total_checks = @ + 1,
                       !.calculation_errors =
                           Append(@, [employee |-> get_name(employee),
                                      total_field |-> total_field,
                                      expected |-> expected_total[1],
                                      calculated |-> calculated_total,
                                      difference |-> difference,
                                      contributing_fields |-> contributing_fields])]

RECURSIVE check_totals(_, _, _, _)
check_totals(math_validation, employee, total_fields, hour_fields) ==
    IF total_fields = <<>> THEN math_validation
    ELSE check_totals(check_total(math_validation, employee, Head(total_fields), hour_fields),
                      employee, Tail(total_fields), hour_fields)

RECURSIVE math_loop(_, _, _, _)
math_loop(math_validation, employees, total_fields, hour_fields) ==
    IF employees = <<>> THEN math_validation
    ELSE math_loop(check_totals(math_validation, Head(employees), total_fields, hour_fields),
                   Tail(employees), total_fields, hour_fields)

_validate_mathematical_consistency(employees, headers) ==
    LET total_fields == SelectSeq(headers, LAMBDA h : contains_any(h, TotalKeywords))
        hour_fields == SelectSeq(headers, LAMBDA h : contains_any(h, HourKeywords)
                                                     /\ ~contains_any(h, TotalKeywords))
        checked == math_loop([total_checks |-> 0, valid_calculations |-> 0,
                              calculation_errors |-> <<>>, confidence_impact |-> 0,
                              suggestions |-> <<>>],
                             employees, total_fields, hour_fields)
    IN IF checked.total_checks = 0 THEN checked
       ELSE LET accuracy == ratio(checked.valid_calculations, checked.total_checks)
            IN [checked EXCEPT
                  !.confidence_impact = ((accuracy - 8000) * 15) \div 100,
                  !.suggestions =
                      IF accuracy > 9500 THEN <<"Excellent mathematical consistency">>
                      ELSE IF accuracy < 8000
                      THEN <<"Review total calculations - frequent discrepancies detected">>
                      ELSE <<>>]

\* '_'.join(parts[:-1]) of the headers with at least three parts, in the
\* order of first appearance (the keys of hierarchical_groups).
RECURSIVE group_keys(_, _)
group_keys(headers, seen) ==
    IF headers = <<>> THEN seen
    ELSE LET parts == Head(headers)
             group_key == SubSeq(parts, 1, Len(parts) - 1)
         IN group_keys(Tail(headers),
                       IF Len(parts) >= 3 /\ ~has(seen, group_key)
                       THEN Append(seen, group_key) ELSE seen)

group_fields_of(headers, group_key) ==
    SelectSeq(headers, LAMBDA h : Len(h) >= 3 /\ SubSeq(h, 1, Len(h) - 1) = group_key)

\* has_hours / has_pieces: some field of the list holds a number above 0.
has_positive(employee, fields) ==
    \E i \in 1..Len(fields) :
        LET value == get(employee, fields[i])
        IN is_value(value) /\ parse_float(value) # None /\ parse_float(value)[1] > 0

RECURSIVE relationship_employees(_, _, _, _)
relationship_employees(acc, employees, group_key, group_fields) ==
    IF employees = <<>> THEN acc
    ELSE LET employee == Head(employees)
             has_hours == has_positive(employee,
                             SelectSeq(group_fields, LAMBDA f : contains_any(f, {"HRS", "HOURS"})))
             has_pieces == has_positive(employee,
                             SelectSeq(group_fields, LAMBDA f : contains_any(f, {"PCS", "PIECE"})))
         IN relationship_employees(
               IF has_hours = has_pieces
               THEN [acc EXCEPT !.relationships_checked = @ + 1,
                                !.valid_relationships = @ + 1]
               ELSE [acc EXCEPT !.relationships_checked = @ + 1,
                                !.relationship_issues =
                                    Append(@, [employee |-> get_name(employee),
                                               group |-> group_key,
                                               has_hours |-> has_hours,
                                               has_pieces |-> has_pieces])],
               Tail(employees), group_key, group_fields)

RECURSIVE relationship_groups(_, _, _, _)
relationship_groups(acc, keys, employees, headers) ==
    IF keys = <<>> THEN acc
    ELSE LET group_fields == group_fields_of(headers, Head(keys))
         IN relationship_groups(
               IF Len(group_fields) >= 2
               THEN relationship_employees(acc, employees, Head(keys), group_fields)
               ELSE acc,
               Tail(keys), employees, headers)

_validate_field_relationships(employees, headers) ==
    LET checked == relationship_groups(
                      [relationships_checked |-> 0, valid_relationships |-> 0,
                       relationship_issues |-> <<>>, confidence_impact |-> 0],
                      group_keys(headers, <<>>), employees, headers)
    IN IF checked.relationships_checked = 0 THEN checked
       ELSE [checked EXCEPT
               !.confidence_impact =
                   (ratio(checked.valid_relationships, checked.relationships_checked) - 7000)
                       \div 10]

\* sum(employee_counts) over the recent sheets
RECURSIVE sum_counts(_)
sum_counts(sheets) ==
    IF sheets = <<>> THEN 0 ELSE Head(sheets).employee_count + sum_counts(Tail(sheets))

\* _validate_pattern_consistency against the user's recent completed
\* sheets (each given by its employee count and header set); crew_sheet
\* None or no recent sheet is the empty sequence.
_validate_pattern_consistency(employees, headers, recent_sheets) ==
    LET pattern_validation == [patterns_analyzed |-> 0, consistent_patterns |-> 0,
                               pattern_anomalies |-> <<>>, confidence_impact |-> 0]
        n == Len(recent_sheets)
        total == sum_counts(recent_sheets)
        \* abs(current - avg) <= max(2, avg * 0.3), times 10 n
        count_consistent == 10 * abs(Len(employees) * n - total) <= Max(20 * n, 3 * total)
        header_patterns == UNION {recent_sheets[i].table_headers : i \in 1..n}
        common_headers ==
            {h \in header_patterns :
                2 * Cardinality({i \in 1..n : h \in recent_sheets[i].table_headers}) >= n}
        missing_common == common_headers \ set_of(headers)
        headers_consistent == Cardinality(missing_common) <= 2
        analyzed == 1 + (IF header_patterns # {} THEN 1 ELSE 0)
        consistent == (IF count_consistent THEN 1 ELSE 0)
                      + (IF header_patterns # {} /\ headers_consistent THEN 1 ELSE 0)
    IN IF recent_sheets = <<>> THEN pattern_validation
       ELSE [patterns_analyzed |-> analyzed,
             consistent_patterns |-> consistent,
             pattern_anomalies |->
                 (IF count_consistent THEN <<>> ELSE <<"employee_count_anomaly">>)
                 \o (IF header_patterns # {} /\ ~headers_consistent
                     THEN <<"header_pattern_anomaly">> ELSE <<>>),
             confidence_impact |-> (ratio(consistent, analyzed) - 7000) \div 10]

\* _validate_company_patterns against the profile's common_cost_centers and
\* common_tasks (every token of the modelled headers is alphanumeric).
_validate_company_patterns(headers, company_profile) ==
    LET detected_cost_centers ==
            {headers[i][1] : i \in {j \in 1..Len(headers) : Len(headers[j]) >= 2}}
        detected_tasks ==
            {headers[i][2] : i \in {j \in 1..Len(headers) : Len(headers[j]) >= 3}}
        centers_checked == company_profile.common_cost_centers # {}
        tasks_checked == company_profile.common_tasks # {} /\ detected_tasks # {}
        centers_match ==
            10 * Cardinality(detected_cost_centers \cap company_profile.common_cost_centers)
                >= 7 * Cardinality(detected_cost_centers)
        tasks_match ==
            10 * Cardinality(detected_tasks \cap company_profile.common_tasks)
                >= 6 * Cardinality(detected_tasks)
        validations_performed == (IF centers_checked THEN 1 ELSE 0)
                                 + (IF tasks_checked THEN 1 ELSE 0)
        pattern_matches == (IF centers_checked /\ centers_match THEN 1 ELSE 0)
                           + (IF tasks_checked /\ tasks_match THEN 1 ELSE 0)
    IN [validations_performed |-> validations_performed,
        pattern_matches |-> pattern_matches,
        pattern_mismatches |->
            (IF centers_checked /\ ~centers_match THEN <<"cost_center_mismatch">> ELSE <<>>)
            \o (IF tasks_checked /\ ~tasks_match THEN <<"task_mismatch">> ELSE <<>>),
        suggestions |->
            IF centers_checked /\ detected_cost_centers \ company_profile.common_cost_centers # {}
            THEN <<"Consider adding to company cost centers">> ELSE <<>>,
        confidence_impact |->
            IF validations_performed = 0 THEN 0
            ELSE ((ratio(pattern_matches, validations_performed) - 5000) * 15) \div 100]

\* _validate_template_conformity against template.expected_fields.
_validate_template_conformity(headers, expected_fields) ==
    LET found_fields == expected_fields \cap set_of(headers)
        conformity_score == ratio(Cardinality(found_fields), Cardinality(expected_fields))
    IN IF expected_fields = {}
       THEN [expected_fields_found |-> 0, missing_fields |-> {}, unexpected_fields |-> {},
             conformity_score |-> 0, confidence_impact |-> 0]
       ELSE [expected_fields_found |-> Cardinality(found_fields),
             missing_fields |-> expected_fields \ set_of(headers),
             unexpected_fields |-> set_of(headers) \ expected_fields,
             conformity_score |-> conformity_score,
             confidence_impact |-> ((conformity_score - 7000) * 2) \div 10]

\* The largest number of employees of a validated sheet.
MaxSheetEmployees == 1

\* The cells of the time columns and of the hour, piece and total columns.
TimeCells == {EMPTY, TEXT, clock(0, 0), clock(8, 0), clock(9, 0)}
HourCells == {EMPTY, number(800)}
PieceCells == {EMPTY, number(900)}
TotalCells == {EMPTY, number(800), number(810), number(820), number(1000)}

\* Employee records: two time fields; the day of the extraction prompt's
\* example (with an END), each OUT/IN pair as given or swapped; a total
\* with an hour column and a piece column.
TwoTimeRecords(first, second) ==
    {(NAME :> JOHN_SMITH) @@ (first :> a) @@ (second :> b) : a, b \in TimeCells}

DayRecords ==
    {(NAME :> JOHN_SMITH) @@ (START_IN :> clock(6, 0)) @@ (END_TIME :> clock(15, 0))
        @@ (BREAK1_OUT :> b[1]) @@ (BREAK1_IN :> b[2])
        @@ (LUNCH_OUT :> l[1]) @@ (LUNCH_IN :> l[2]) :
        b \in {<<clock(8, 30), clock(9, 0)>>, <<clock(9, 0), clock(8, 30)>>},
        l \in {<<clock(11, 30), clock(12, 0)>>, <<clock(12, 0), clock(11, 30)>>}}

HourRecords(hour_field, piece_field) ==
    {(NAME :> JOHN_SMITH) @@ (TOTAL_HRS :> t) @@ (hour_field :> h) @@ (piece_field :> p) :
        t \in TotalCells, h \in HourCells, p \in PieceCells}

\* The sheets (table_headers with the employee records) that are validated.
SheetsOf(headers, records) ==
    {[table_headers |-> headers, employees |-> e] :
        e \in UNION {[1..n -> records] : n \in 1..MaxSheetEmployees}}

Sheets ==
    {[table_headers |-> <<>>, employees |-> <<>>],
     [table_headers |-> <<START_IN, END_TIME>>, employees |-> <<>>]}
    \cup SheetsOf(<<START_IN, END_TIME>>, TwoTimeRecords(START_IN, END_TIME))
    \cup SheetsOf(<<BREAK1_OUT, BREAK1_IN>>, TwoTimeRecords(BREAK1_OUT, BREAK1_IN))
    \cup SheetsOf(<<START_IN, LUNCH_END>>, TwoTimeRecords(START_IN, LUNCH_END))
    \cup SheetsOf(<<START_STOP, END_TIME>>, TwoTimeRecords(START_STOP, END_TIME))
    \cup SheetsOf(<<START_IN, BREAK1_OUT, BREAK1_IN, LUNCH_OUT, LUNCH_IN, END_TIME>>, DayRecords)
    \cup SheetsOf(<<KW13_ZERO_JOB_NO_HRS, KW13_ZERO_JOB_PIECE_WORK, TOTAL_HRS>>,
                  HourRecords(KW13_ZERO_JOB_NO_HRS, KW13_ZERO_JOB_PIECE_WORK))
    \cup SheetsOf(<<KW13_ZERO_JOB_HRS, KW13_ZERO_JOB_PCS, TOTAL_HRS>>,
                  HourRecords(KW13_ZERO_JOB_HRS, KW13_ZERO_JOB_PCS))

\* confidence_score of the extraction result: absent, below 0.1, inside the
\* range, above 1.0.
ReportedScores == {None, Some(500), Some(5000), Some(15000)}

\* The recent completed sheets of the user (none also stands for
\* crew_sheet=None), the company profiles and the templates.
RecentSheetChoices ==
    {<<>>,
     <<[employee_count |-> 1, table_headers |-> {START_IN, END_TIME}]>>,
     <<[employee_count |-> 5, table_headers |-> {START_IN, END_TIME, TOTAL_HRS}]>>}

CompanyProfileChoices ==
    {None,
     Some([common_cost_centers |-> {"KW13"}, common_tasks |-> {"ZERO"}]),
     Some([common_cost_centers |-> {"KW14"}, common_tasks |-> {}])}

ExpectedFieldChoices == {None, Some({}), Some({START_IN, TOTAL_HRS})}

\* The keys of field_validations, in the order they are inserted.
ValidationNames ==
    <<"time_sequences", "mathematical_consistency", "field_relationships",
      "pattern_consistency", "company_patterns", "template_conformity">>

\* Over the validations present: the sum of the confidence_impact values
\* and the accuracy_improvements they contribute.
RECURSIVE total_impact(_, _)
total_impact(field_validations, names) ==
    IF names = <<>> THEN 0
    ELSE (IF Head(names) \in DOMAIN field_validations
          THEN field_validations[Head(names)].confidence_impact ELSE 0)
         + total_impact(field_validations, Tail(names))

RECURSIVE accuracy_improvements(_, _)
accuracy_improvements(field_validations, names) ==
    IF names = <<>> THEN <<>>
    ELSE (IF Head(names) \in DOMAIN field_validations
          THEN LET v == field_validations[Head(names)]
               IN (IF "corrections_suggested" \in DOMAIN v THEN v.corrections_suggested ELSE <<>>)
                  \o (IF "suggestions" \in DOMAIN v
                      THEN [i \in 1..Len(v.suggestions) |->
                              [type |-> "suggestion", message |-> v.suggestions[i]]]
                      ELSE <<>>)
          ELSE <<>>)
         \o accuracy_improvements(field_validations, Tail(names))

\* max(0.1, min(1.0, confidence))
clamp_confidence(confidence) == Max(1000, Min(One, confidence))

_aggregate_validation_results(result) ==
    LET impact_count == Cardinality(DOMAIN result.field_validations)
        average_impact ==
            IF impact_count > 0
            THEN total_impact(result.field_validations, ValidationNames) \div impact_count
            ELSE 0
        adjusted_confidence == clamp_confidence(result.original_confidence + average_impact)
    IN [result EXCEPT
          !.adjusted_confidence = adjusted_confidence,
          !.context_insights =
              IF adjusted_confidence > result.original_confidence + 500
              THEN Append(@, "Context validation increased confidence")
              ELSE IF adjusted_confidence < result.original_confidence - 500
              THEN Append(@, "Context validation identified issues, reducing confidence")
              ELSE @,
          !.accuracy_improvements =
              @ \o accuracy_improvements(result.field_validations, ValidationNames)]

\* validation_result with one more entry of field_validations.
with_validation(result, name, field_validation) ==
    [result EXCEPT !.field_validations = @ @@ (name :> field_validation)]

\* The call validate_extraction_with_context(extraction_result, crew_sheet,
\* template, company_profile).
InitValidator ==
    /\ val_pc = "call"
    /\ extraction_result = None
    /\ validation_result = None
    /\ validation_returned = None
    /\ RetryIdle
    /\ ApiIdle
    /\ StageIdle
    /\ ScorerIdle
    /\ TemplateIdle
    /\ LearningIdle
    /\ ProcessingIdle
    /\ RequestsIdle
    /\ SessionsIdle
    /\ MatchingIdle

\* The entry of the function: validation_result is set up and an extraction
\* without employees or without headers returns at once.
ValidationStarts ==
    /\ val_pc = "call"
    /\ \E sheet \in Sheets, score \in ReportedScores :
         LET extraction == [table_headers |-> sheet.table_headers,
                            employees |-> sheet.employees,
                            confidence_score |-> score]
             result == [original_confidence |-> get_confidence(extraction, 8000),
                        adjusted_confidence |-> 0,
                        context_insights |-> <<>>,
                        accuracy_improvements |-> <<>>,
                        field_validations |-> <<>>,
                        error |-> FALSE]
         IN /\ extraction_result' = Some(extraction)
            /\ IF sheet.employees = <<>> \/ sheet.table_headers = <<>>
               THEN LET early == [result EXCEPT !.adjusted_confidence = result.original_confidence]
                    IN /\ validation_result' = Some(early)
                       /\ validation_returned' = Some(early)
                       /\ val_pc' = "done"
               ELSE /\ validation_result' = Some(result)
                    /\ validation_returned' = None
                    /\ val_pc' = "time_sequences"
    /\ UNCHANGED <<retry_vars, api_vars, stage_vars, scorer_vars, tmpl_vars, learn_vars, proc_vars, req_vars, sess_vars, match_vars>>

\* One validation step: its result is stored in field_validations.
ValidationStep(name, field_validation, next_pc) ==
    /\ val_pc = name
    /\ validation_result' = Some(with_validation(validation_result[1], name, field_validation))
    /\ val_pc' = next_pc
    /\ UNCHANGED <<extraction_result, validation_returned>>
    /\ UNCHANGED <<retry_vars, api_vars, stage_vars, scorer_vars, tmpl_vars, learn_vars, proc_vars, req_vars, sess_vars, match_vars>>

\* A step that is skipped (no company_profile, no template).
ValidationSkipped(name, next_pc) ==
    /\ val_pc = name
    /\ val_pc' = next_pc
    /\ UNCHANGED <<extraction_result, validation_result, validation_returned>>
    /\ UNCHANGED <<retry_vars, api_vars, stage_vars, scorer_vars, tmpl_vars, learn_vars, proc_vars, req_vars, sess_vars, match_vars>>

TimeSequences ==
    ValidationStep("time_sequences",
                   _validate_time_sequences(extraction_result[1].employees,
                                            extraction_result[1].table_headers),
                   "mathematical_consistency")

MathematicalConsistency ==
    ValidationStep("mathematical_consistency",
                   _validate_mathematical_consistency(extraction_result[1].employees,
                                                      extraction_result[1].table_headers),
                   "field_relationships")

FieldRelationships ==
    ValidationStep("field_relationships",
                   _validate_field_relationships(extraction_result[1].employees,
                                                 extraction_result[1].table_headers),
                   "pattern_consistency")

PatternConsistency ==
    \E recent_sheets \in RecentSheetChoices :
        ValidationStep("pattern_consistency",
                       _validate_pattern_consistency(extraction_result[1].employees,
                                                     extraction_result[1].table_headers,
                                                     recent_sheets),
                       "company_patterns")

CompanyPatterns ==
    \E company_profile \in CompanyProfileChoices :
        IF company_profile = None
        THEN ValidationSkipped("company_patterns", "template_conformity")
        ELSE ValidationStep("company_patterns",
                            _validate_company_patterns(extraction_result[1].table_headers,
                                                       company_profile[1]),
                            "template_conformity")

TemplateConformity ==
    \E expected_fields \in ExpectedFieldChoices :
        IF expected_fields = None
        THEN ValidationSkipped("template_conformity", "aggregate")
        ELSE ValidationStep("template_conformity",
                            _validate_template_conformity(extraction_result[1].table_headers,
                                                          expected_fields[1]),
                            "aggregate")

\* _aggregate_validation_results and the return.
Aggregate ==
    /\ val_pc = "aggregate"
    /\ validation_result' = Some(_aggregate_validation_results(validation_result[1]))
    /\ validation_returned' = validation_result'
    /\ val_pc' = "done"
    /\ UNCHANGED extraction_result
    /\ UNCHANGED <<retry_vars, api_vars, stage_vars, scorer_vars, tmpl_vars, learn_vars, proc_vars, req_vars, sess_vars, match_vars>>

\* An exception escapes a step (the steps catch their own, so it comes from
\* a value of the wrong type reaching the code around them): the except
\* branch records the error and returns the original confidence.
ValidationRaises ==
    /\ val_pc \notin {"idle", "call", "done"}
    /\ validation_result' = Some([validation_result[1] EXCEPT
                                     !.error = TRUE,
                                     !.adjusted_confidence = validation_result[1].original_confidence])
    /\ validation_returned' = validation_result'
    /\ val_pc' = "done"
    /\ UNCHANGED extraction_result
    /\ UNCHANGED <<retry_vars, api_vars, stage_vars, scorer_vars, tmpl_vars, learn_vars, proc_vars, req_vars, sess_vars, match_vars>>

NextValidator ==
    \/ ValidationStarts
    \/ TimeSequences
    \/ MathematicalConsistency
    \/ FieldRelationships
    \/ PatternConsistency
    \/ CompanyPatterns
    \/ TemplateConformity
    \/ Aggregate
    \/ ValidationRaises

SpecValidator == InitValidator /\ [][NextValidator]_vars

(***************************************************************************)
(* Claims about ContextAwareValidator, checked under SpecValidator         *)
(***************************************************************************)

\* C13 as stated: whatever the extraction result, the validation result
\* that validate_extraction_with_context returns has its
\* adjusted_confidence within [0.1, 1.0].
C13_AdjustedConfidenceWithinRange ==
    validation_returned # None =>
        /\ validation_returned[1].adjusted_confidence >= 1000
        /\ validation_returned[1].adjusted_confidence <= One

\* The result of a validation step, once it has run.
Validated(name) ==
    /\ validation_result # None
    /\ name \in DOMAIN validation_result[1].field_validations

\* The chronological order of the time fields the specification gives:
\* start, break out, break in, lunch out, lunch in, end.
ChronologicalOrder == <<START_IN, BREAK1_OUT, BREAK1_IN, LUNCH_OUT, LUNCH_IN, END_TIME>>

\* The clock times of an employee's time fields, in that order.
ClockTimes(employee, headers) ==
    LET fields == SelectSeq(ChronologicalOrder, LAMBDA f : has(headers, f))
    IN [i \in 1..Len(fields) |-> get(employee, fields[i])]

AllClockTimes(employee, headers) ==
    \A i \in 1..Len(ClockTimes(employee, headers)) :
        ClockTimes(employee, headers)[i][1] = "clock"

Minutes(cell) == cell[2] * 60 + cell[3]

\* C15 as stated: when every employee has clock times that increase in the
\* chronological order of the fields, _validate_time_sequences compares the
\* fields in that order, suggests no correction and counts every employee
\* as a valid sequence.
C15_IncreasingTimesAreValidSequence ==
    Validated("time_sequences") =>
        LET e == extraction_result[1]
            tv == validation_result[1].field_validations["time_sequences"]
            time_fields == SelectSeq(e.table_headers, LAMBDA h : contains_any(h, TimeKeywords))
            increasing(employee) ==
                LET times == ClockTimes(employee, e.table_headers)
                IN /\ Len(times) >= 2
                   /\ AllClockTimes(employee, e.table_headers)
                   /\ \A i \in 2..Len(times) : Minutes(times[i - 1]) < Minutes(times[i])
        IN (\A i \in 1..Len(e.employees) : increasing(e.employees[i])) =>
              /\ _get_time_field_order(time_fields)
                    = SelectSeq(ChronologicalOrder, LAMBDA f : has(time_fields, f))
              /\ tv.corrections_suggested = <<>>
              /\ tv.invalid_sequences = 0
              /\ tv.valid_sequences = Len(e.employees)

\* C16 as stated: when the only employee has two time fields, both with
\* clock times, and the field that is earlier in the chronological order has
\* the later time, _validate_time_sequences suggests a correction, counts
\* one invalid sequence and gives a negative confidence_impact.
C16_OutOfOrderTimesAreInvalidSequence ==
    Validated("time_sequences") =>
        LET e == extraction_result[1]
            tv == validation_result[1].field_validations["time_sequences"]
            times == ClockTimes(e.employees[1], e.table_headers)
        IN (/\ Len(e.employees) = 1
            /\ Len(e.table_headers) = 2
            /\ Len(times) = 2
            /\ AllClockTimes(e.employees[1], e.table_headers)
            /\ Minutes(times[1]) > Minutes(times[2])) =>
              /\ tv.corrections_suggested # <<>>
              /\ tv.invalid_sequences = 1
              /\ tv.valid_sequences = 0
              /\ tv.confidence_impact < 0

\* The hour fields in the sense of the specification: the headers with HRS,
\* HOURS or WORK that are neither totals nor piece-count columns.
HourFieldsWithoutPieces(headers) ==
    SelectSeq(headers, LAMBDA h : /\ contains_any(h, HourKeywords)
                                  /\ ~contains_any(h, TotalKeywords)
                                  /\ ~contains_any(h, {"PCS", "PIECE"}))

\* The (total_field, difference) pairs the specification expects for one
\* employee: one for each total with a number that differs by more than 0.1
\* from the sum of the employee's numeric hour fields.
ExpectedErrors(employee, headers) ==
    LET totals == SelectSeq(headers, LAMBDA h : /\ contains_any(h, TotalKeywords)
                                                /\ parse_float(get(employee, h)) # None)
        hours == sum_fields(employee, contributing(employee, HourFieldsWithoutPieces(headers)))
        wrong == SelectSeq(totals,
                           LAMBDA h : abs(parse_float(get(employee, h))[1] - hours) > Tolerance)
    IN [i \in 1..Len(wrong) |->
          [total_field |-> wrong[i],
           difference |-> abs(parse_float(get(employee, wrong[i]))[1] - hours)]]

RECURSIVE AllExpectedErrors(_, _)
AllExpectedErrors(employees, headers) ==
    IF employees = <<>> THEN <<>>
    ELSE ExpectedErrors(Head(employees), headers) \o AllExpectedErrors(Tail(employees), headers)

\* C17 as stated: _validate_mathematical_consistency records a calculation
\* error for an employee and a total field with a number exactly when that
\* number differs by more than 0.1 from the sum of the employee's numeric
\* hour fields, piece-count columns left out, and the recorded difference
\* is that absolute difference.
C17_TotalsComparedWithHourFieldsOnly ==
    Validated("mathematical_consistency") =>
        LET e == extraction_result[1]
            mv == validation_result[1].field_validations["mathematical_consistency"]
        IN [i \in 1..Len(mv.calculation_errors) |->
              [total_field |-> mv.calculation_errors[i].total_field,
               difference |-> mv.calculation_errors[i].difference]]
           = AllExpectedErrors(e.employees, e.table_headers)

\* The time fields of the validated extraction, as _validate_time_sequences
\* selects them.
ValidatedTimeFields ==
    SelectSeq(extraction_result[1].table_headers,
              LAMBDA h : contains_any(h, TimeKeywords))

\* C29 as stated: the order _get_time_field_order gives is a permutation of
\* the time fields (each appears exactly once), so the sequence check
\* never compares a field with itself.
C29_TimeFieldOrderIsPermutation ==
    (extraction_result # None /\ Len(ValidatedTimeFields) >= 2) =>
        LET order == _get_time_field_order(ValidatedTimeFields)
        IN /\ Len(order) = Len(ValidatedTimeFields)
           /\ set_of(order) = set_of(ValidatedTimeFields)
           /\ \A i, j \in 1..Len(order) : order[i] = order[j] => i = j
           /\ Validated("time_sequences") =>
                 \A c \in set_of(validation_result[1].field_validations["time_sequences"]
                                     .corrections_suggested) :
                     c.earlier # c.later

(***************************************************************************)
(* ConfidenceScorer.calculate_field_confidence and                         *)
(* QualityValidator.validate_extraction                                    *)
(***************************************************************************)

\* time_pattern.match(value) for ^\d{1,2}:?\d{0,2}$|^\d{1,2}$ : a clock
\* time, or a whole number of at most four digits.
matches_time_pattern(cell) ==
    \/ cell[1] = "clock"
    \/ cell[1] = "number" /\ cell[2] % 100 = 0 /\ cell[2] >= 0 /\ cell[2] < 1000000

\* int(value.replace(',', '')) or None for ValueError
parse_int(cell) ==
    IF cell[1] = "number" /\ cell[2] % 100 = 0 THEN Some(cell[2] \div 100) ELSE None

\* len(value) > 1 and ' ' in value
is_full_name(cell) == cell[1] = "words" /\ Len(cell[2]) >= 2

\* The scores of ConfidenceScorer are in thousandths.
\* _get_structure_confidence
_get_structure_confidence(field_name, value) ==
    IF value = EMPTY THEN 0
    ELSE IF contains_any(field_name, {"START", "BREAK", "LUNCH", "STOP"})
    THEN (IF matches_time_pattern(value) THEN 900 ELSE 300)
    ELSE IF contains_any(field_name, {"HRS", "HOURS"})
    THEN (IF parse_float(value) = None THEN 200
          ELSE IF 0 <= parse_float(value)[1] /\ parse_float(value)[1] <= 2400 THEN 900 ELSE 500)
    ELSE IF contains_any(field_name, {"PIECE", "PCS"})
    THEN (IF parse_int(value) = None THEN 200
          ELSE IF parse_int(value)[1] >= 0 THEN 900 ELSE 500)
    ELSE IF contains_any(field_name, {"NAME", "EMPLOYEE"})
    THEN (IF is_full_name(value) THEN 900 ELSE 400)
    ELSE 700

\* A text of more than 100 characters.
LONG_TEXT == <<"long">>
\* The text "unclear".
UNCLEAR == <<"unclear">>

\* _get_data_consistency: of the placeholder patterns only the check mark,
\* '?', 'unclear' and 'uncertain' can occur in value.lower().
_get_data_consistency(value) ==
    IF value = EMPTY THEN 0
    ELSE IF value \in {CHECK, UNCLEAR} THEN 200
    ELSE IF value = LONG_TEXT THEN 300
    ELSE 800

\* _get_historical_accuracy for the history of this field: None when the
\* field has no history, else the correction rate recorded for this value
\* (if any) and the field's accuracy (if any).
_get_historical_accuracy(field_history) ==
    IF field_history = None THEN 500
    ELSE IF field_history[1].correction_rate # None
    THEN 1000 - field_history[1].correction_rate[1]
    ELSE IF field_history[1].accuracy # None THEN field_history[1].accuracy[1]
    ELSE 500

\* scores['historical_accuracy']: neutral without historical_data.
historical_score(historical_data) ==
    IF historical_data = None THEN 500 ELSE _get_historical_accuracy(historical_data[1])

calculate_field_confidence(field_name, value, historical_data) ==
    LET ocr_confidence == 800
        structure_confidence == _get_structure_confidence(field_name, value)
        data_consistency_score == _get_data_consistency(value)
        historical_accuracy == historical_score(historical_data)
    IN [ocr_confidence |-> ocr_confidence,
        structure_confidence |-> structure_confidence,
        data_consistency_score |-> data_consistency_score,
        historical_accuracy |-> historical_accuracy,
        overall_confidence |->
            (3 * ocr_confidence + 3 * structure_confidence
               + 2 * data_consistency_score + 2 * historical_accuracy) \div 10]

\* QualityValidator works on ratios in ten-thousandths.
\* The values of the given fields over all employees.
RECURSIVE field_values(_, _)
field_values(employees, fields) ==
    IF employees = <<>> THEN <<>>
    ELSE [i \in 1..Len(fields) |-> get(Head(employees), fields[i])]
         \o field_values(Tail(employees), fields)

_validate_time_formats(employees, headers) ==
    LET time_fields == SelectSeq(headers, LAMBDA h : contains_any(h, TimeKeywords))
        values == SelectSeq(field_values(employees, time_fields), LAMBDA v : v # EMPTY)
        total_times == Len(values)
        valid_times == Len(SelectSeq(values, matches_time_pattern))
    IN IF time_fields = <<>> \/ total_times = 0 THEN One
       ELSE ratio(valid_times, total_times)

_validate_employee_names(employees) ==
    IF employees = <<>> THEN 0
    ELSE ratio(Len(SelectSeq(field_values(employees, <<NAME>>), is_full_name)),
               Len(employees))

_validate_header_structure(headers) ==
    IF headers = <<>> THEN 0
    ELSE (IF \E i \in 1..Len(headers) : contains_any(headers[i], {"NAME", "EMPLOYEE"})
          THEN 4000 ELSE 0)
         + (IF \E i \in 1..Len(headers) :
                  contains_any(headers[i], {"START", "BREAK", "LUNCH", "STOP"})
            THEN 3000 ELSE 0)
         + (IF \E i \in 1..Len(headers) :
                  contains_any(headers[i], {"JOB", "WORK", "HRS", "HOURS"})
            THEN 3000 ELSE 0)

\* The deduction of _check_data_consistency for one header.
RECURSIVE consistency_deductions(_, _)
consistency_deductions(employees, headers) ==
    IF headers = <<>> THEN 0
    ELSE LET values == [i \in 1..Len(employees) |-> get(employees[i], Head(headers))]
             non_empty_values == SelectSeq(values, LAMBDA v : v # EMPTY)
             placeholder_count == Len(SelectSeq(non_empty_values, LAMBDA v : v = CHECK))
         IN (IF Cardinality(set_of(non_empty_values)) = 1 /\ Len(non_empty_values) > 3
             THEN 1000 ELSE 0)
            + (IF non_empty_values # <<>> /\ 2 * placeholder_count > Len(non_empty_values)
               THEN 2000 ELSE 0)
            + consistency_deductions(employees, Tail(headers))

_check_data_consistency(employees, headers) ==
    IF employees = <<>> \/ headers = <<>> THEN 0
    ELSE Max(0, One - consistency_deductions(employees, headers))

\* a * b of two ratios
product(a, b) == (a * b) \div One

\* validate_extraction of a dict that may lack the keys 'employees' and
\* 'table_headers' (None: the key is absent); an empty dict or a value that
\* is no dict is extracted_data = None.
validate_extraction(extracted_data) ==
    IF extracted_data = None
    THEN [confidence |-> 0, issues |-> <<"Invalid extraction data format">>]
    ELSE LET data == extracted_data[1]
             employees == IF data.employees = None THEN <<>> ELSE data.employees[1]
             headers == IF data.table_headers = None THEN <<>> ELSE data.table_headers[1]
             base == One - (IF data.employees = None THEN 3000 ELSE 0)
                         - (IF data.table_headers = None THEN 2000 ELSE 0)
                         - (IF employees = <<>> THEN 4000 ELSE 0)
             time_confidence == _validate_time_formats(employees, headers)
             name_confidence == _validate_employee_names(employees)
             header_confidence == _validate_header_structure(headers)
             consistency_score == _check_data_consistency(employees, headers)
             confidence_score ==
                 product(product(product(product(base, time_confidence), name_confidence),
                                 header_confidence), consistency_score)
         IN [confidence |-> Max(0, Min(One, confidence_score)),
             issues |->
                 (IF data.employees = None THEN <<"Missing employees data">> ELSE <<>>)
                 \o (IF data.table_headers = None THEN <<"Missing table headers">> ELSE <<>>)
                 \o (IF employees = <<>> THEN <<"No employee data found">> ELSE <<>>)
                 \o (IF time_confidence < 8000
                     THEN <<"Inconsistent time formats detected">> ELSE <<>>)
                 \o (IF name_confidence < 9000
                     THEN <<"Missing or invalid employee names">> ELSE <<>>)
                 \o (IF header_confidence < 8000 THEN <<"Irregular header structure">> ELSE <<>>)
                 \o (IF consistency_score < 7000
                     THEN <<"Data consistency issues detected">> ELSE <<>>)]

\* The arguments of calculate_field_confidence.
ScoredFields == {START_IN, END_TIME, KW13_ZERO_JOB_NO_HRS, KW13_ZERO_JOB_PCS, EMPLOYEE_NAME}

ScoredValues ==
    {EMPTY, CHECK, TEXT, LONG_TEXT, JOHN_SMITH, clock(8, 30),
     number(800), number(850), number(2500), number(-100)}

\* historical_data: None, or the history of the field: None when the field
\* is not in it, else the correction rate of the value and the accuracy of
\* the field (in thousandths), each possibly missing and possibly outside
\* [0, 1].
FieldHistories ==
    {None} \cup
    {Some([correction_rate |-> r, accuracy |-> a]) :
        r \in {None, Some(0), Some(1000), Some(3000)},
        a \in {None, Some(900), Some(5000), Some(-1000)}}

HistoricalData == {None} \cup {Some(h) : h \in FieldHistories}

\* The arguments of validate_extraction: the validated sheets, sheets with
\* an EMPLOYEE_NAME header and missing or partial names, dicts that lack a
\* key, and no dict.
NameRecords ==
    {(NAME :> n) @@ (START_IN :> t) :
        n \in {EMPTY, words(<<"John">>), JOHN_SMITH},
        t \in {EMPTY, CHECK, TEXT, clock(8, 0)}}

ExtractedData ==
    {None,
     Some([employees |-> None, table_headers |-> Some(<<EMPLOYEE_NAME, START_IN>>)]),
     Some([employees |-> Some(<<>>), table_headers |-> None])}
    \cup {Some([employees |-> Some(sheet.employees),
                table_headers |-> Some(sheet.table_headers)]) :
             sheet \in Sheets \cup SheetsOf(<<EMPLOYEE_NAME, START_IN>>, NameRecords)}

\* One call of either function.
InitScorer ==
    /\ scorer_pc = "call"
    /\ scorer_input = None
    /\ scorer_output = None
    /\ RetryIdle
    /\ ApiIdle
    /\ StageIdle
    /\ ValidatorIdle
    /\ TemplateIdle
    /\ LearningIdle
    /\ ProcessingIdle
    /\ RequestsIdle
    /\ SessionsIdle
    /\ MatchingIdle

CalculateFieldConfidence ==
    /\ scorer_pc = "call"
    /\ \E field_name \in ScoredFields, value \in ScoredValues, historical_data \in HistoricalData :
         /\ scorer_input' = Some([function |-> "calculate_field_confidence",
                                  field_name |-> field_name, value |-> value,
                                  historical_data |-> historical_data])
         /\ scorer_output' = Some(calculate_field_confidence(field_name, value, historical_data))
    /\ scorer_pc' = "done"
    /\ UNCHANGED <<retry_vars, api_vars, stage_vars, val_vars, tmpl_vars, learn_vars, proc_vars, req_vars, sess_vars, match_vars>>

ValidateExtraction ==
    /\ scorer_pc = "call"
    /\ \E extracted_data \in ExtractedData :
         /\ scorer_input' = Some([function |-> "validate_extraction",
                                  extracted_data |-> extracted_data])
         /\ scorer_output' = Some(validate_extraction(extracted_data))
    /\ scorer_pc' = "done"
    /\ UNCHANGED <<retry_vars, api_vars, stage_vars, val_vars, tmpl_vars, learn_vars, proc_vars, req_vars, sess_vars, match_vars>>

NextScorer ==
    \/ CalculateFieldConfidence
    \/ ValidateExtraction

SpecScorer == InitScorer /\ [][NextScorer]_vars

(***************************************************************************)
(* Claims about the scorers, checked under SpecScorer                      *)
(***************************************************************************)

\* C14 as stated: whatever the field name, value and historical_data,
\* calculate_field_confidence returns an overall_confidence within [0, 1],
\* and whatever the extracted data, validate_extraction returns a
\* confidence within [0, 1].
C14_ScoresWithinUnitInterval ==
    scorer_output # None =>
        IF scorer_input[1].function = "calculate_field_confidence"
        THEN /\ scorer_output[1].overall_confidence >= 0
             /\ scorer_output[1].overall_confidence <= 1000
        ELSE /\ scorer_output[1].confidence >= 0
             /\ scorer_output[1].confidence <= One

(***************************************************************************)
(* EnhancedExtractionService.extract_with_intelligence and                 *)
(* TemplateMatchingService._update_template_success_rate                   *)
(***************************************************************************)

\* The largest number of calls made with the template.
MaxUses == 3

\* success_rate and the confidences are in units of 1/2400, so that the
\* divisions of the running average are exact for up to five uses.
RateOne == 2400

\* confidence_score of a valid result: absent (0.8 is taken), 0.0, 0.5,
\* 0.9, 1.0 and a reported 1.5.
ResultConfidences == {None, Some(0), Some(1200), Some(2160), Some(2400), Some(3600)}

\* success_rate of a new template: the model default 0.0, or what
\* create_template_from_sheet stores (crew_sheet.confidence_score or 0.8).
InitialRates == {0, 1920}

_update_template_success_rate(tmpl, new_confidence) ==
    [tmpl EXCEPT !.success_rate =
        IF tmpl.usage_count > 1
        THEN (tmpl.success_rate * (tmpl.usage_count - 1) + new_confidence)
                \div tmpl.usage_count
        ELSE new_confidence]

\* template.usage_count += 1; template.save()
template_used(tmpl) == [tmpl EXCEPT !.usage_count = @ + 1]

\* A template of the user that has not been used yet.
InitTemplate ==
    /\ \E rate \in InitialRates :
         sheet_template = Some([usage_count |-> 0, success_rate |-> rate])
    /\ created_template = sheet_template
    /\ template_uses = <<>>
    /\ RetryIdle
    /\ ApiIdle
    /\ StageIdle
    /\ ValidatorIdle
    /\ ScorerIdle
    /\ LearningIdle
    /\ ProcessingIdle
    /\ RequestsIdle
    /\ SessionsIdle
    /\ MatchingIdle

\* A call with this template that gets a valid result: the extraction is
\* logged and evaluated for review, and the success rate is updated.
ExtractionValid ==
    /\ Len(template_uses) < MaxUses
    /\ \E confidence_score \in ResultConfidences :
         LET result == [valid |-> TRUE, confidence_score |-> confidence_score]
         IN /\ sheet_template' =
                  Some(_update_template_success_rate(template_used(sheet_template[1]),
                                                     get_confidence(result, 1920)))
            /\ template_uses' = Append(template_uses, [outcome |-> "valid", result |-> result])
    /\ UNCHANGED created_template
    /\ UNCHANGED <<retry_vars, api_vars, stage_vars, val_vars, scorer_vars, learn_vars, proc_vars, req_vars, sess_vars, match_vars>>

\* A call with this template that gets a result with valid=false.
ExtractionInvalid ==
    /\ Len(template_uses) < MaxUses
    /\ sheet_template' = Some(template_used(sheet_template[1]))
    /\ template_uses' = Append(template_uses,
                               [outcome |-> "invalid",
                                result |-> [valid |-> FALSE, confidence_score |-> None]])
    /\ UNCHANGED created_template
    /\ UNCHANGED <<retry_vars, api_vars, stage_vars, val_vars, scorer_vars, learn_vars, proc_vars, req_vars, sess_vars, match_vars>>

\* A call with this template in which something raises after the template
\* was counted (the prompt, the extraction, the logging or the review
\* evaluation of a valid result): the except branch falls back to the
\* standard extraction and the success rate is not updated.
ExtractionRaises ==
    /\ Len(template_uses) < MaxUses
    /\ sheet_template' = Some(template_used(sheet_template[1]))
    /\ \E confidence_score \in {None, Some(2160)} :
         template_uses' = Append(template_uses,
                                 [outcome |-> "raised",
                                  result |-> [valid |-> TRUE,
                                              confidence_score |-> confidence_score]])
    /\ UNCHANGED created_template
    /\ UNCHANGED <<retry_vars, api_vars, stage_vars, val_vars, scorer_vars, learn_vars, proc_vars, req_vars, sess_vars, match_vars>>

NextTemplate ==
    \/ ExtractionValid
    \/ ExtractionInvalid
    \/ ExtractionRaises

SpecTemplate == InitTemplate /\ [][NextTemplate]_vars

(***************************************************************************)
(* Claims about the template statistics, checked under SpecTemplate        *)
(***************************************************************************)

\* The confidences observed in the uses of the template: those of the valid
\* results extract_with_intelligence obtained with it.
ObservedConfidences ==
    LET valid_uses == SelectSeq(template_uses, LAMBDA u : u.outcome = "valid")
    IN [i \in 1..Len(valid_uses) |-> get_confidence(valid_uses[i].result, 1920)]

RECURSIVE SumSeq(_)
SumSeq(q) == IF q = <<>> THEN 0 ELSE Head(q) + SumSeq(Tail(q))

\* The row that replaying a sequence of uses on a template gives.
RECURSIVE Replay(_, _)
Replay(tmpl, uses) ==
    IF uses = <<>> THEN tmpl
    ELSE Replay(IF Head(uses).outcome = "valid"
                THEN _update_template_success_rate(
                        template_used(tmpl), get_confidence(Head(uses).result, 1920))
                ELSE template_used(tmpl),
                Tail(uses))

\* C18 as stated: after any sequence of uses of a template that started
\* with usage_count 0, whatever their outcomes, success_rate is the
\* arithmetic mean of the confidences observed in those uses and lies
\* within [0, 1], and replaying the sequence on the template as created
\* gives the same rate.
C18_SuccessRateIsMeanOfObserved ==
    (sheet_template # None /\ template_uses # <<>>) =>
        /\ ObservedConfidences # <<>> =>
              sheet_template[1].success_rate * Len(ObservedConfidences)
                 = SumSeq(ObservedConfidences)
        /\ sheet_template[1].success_rate >= 0
        /\ sheet_template[1].success_rate <= RateOne
        /\ Replay(created_template[1], template_uses).success_rate
              = sheet_template[1].success_rate

(***************************************************************************)
(* UserBehaviorAnalytics.track_edit and the real-time learning loop        *)
(* (analytics.py, realtime_learning.py)                                    *)
(***************************************************************************)

\* Edits tracked in one session.
MaxEdits == 3

\* Field names of the edits, '_'-separated tokens as above.
KW13_WEEDING_HRS == <<"KW13", "WEEDING", "HRS">>
KW_13_WEEDING_HRS == <<"KW-13", "WEEDING", "HRS">>

EditedFieldNames == {KW13_WEEDING_HRS, KW_13_WEEDING_HRS, START_IN, NAME}

\* token.isalnum(): false for a token with a character that is neither a
\* letter nor a digit, and for the empty token.
isalnum(token) == token \notin {"KW-13", ""}

\* ':' in value
has_colon(value) == value[1] = "clock"

OriginalValues == {number(800)}
NewValues == {number(800), clock(8, 0)}

\* The attributes of a CrewSheet row: the fields of the model.
CrewSheetFields ==
    {"id", "user", "name", "date_uploaded", "image", "extracted_data", "status",
     "date_processed", "error_message", "confidence_score", "quality_score",
     "needs_review"}

\* The truth value of each attribute of the sheet of the session.
crew_sheet == [attribute \in CrewSheetFields |-> TRUE]

hasattr(object, attribute) == attribute \in DOMAIN object

\* The steps of the learning loop that have their own try/except.
LearningSteps ==
    {"field", "pattern", "template", "company", "improvements", "cache",
     "recommendations"}

\* The steps in which something raises during one call: none, one, or all.
FailingChoices == {{}} \cup {{step} : step \in LearningSteps} \cup {LearningSteps}

\* ExtractionSession as created: no edits yet.
NewSession == [edit_count |-> 0, fields_edited |-> <<>>, time_to_first_edit_set |-> FALSE]

\* The defaults of get_or_create for the CompanyLearningProfile.
DefaultCompanyProfile ==
    [common_cost_centers |-> <<>>, common_tasks |-> <<>>, prefers_colon_format |-> FALSE]

\* _update_field_learning: the update dict; a failure is caught and
\* recorded in it.
_update_field_learning(user_edit, fails) ==
    [type |-> "field_learning",
     confidence_adjustment |->
        IF fails THEN 0
        ELSE IF user_edit.original_value # user_edit.new_value THEN -20 ELSE 5,
     error |-> fails]

\* _detect_and_update_patterns: a frequent correction pattern is reported
\* when the field has at least three recent edits and one correction
\* occurs at least twice; a failure is caught and gives no patterns.
_detect_and_update_patterns(user_edit, edits, fails) ==
    LET recent_edits == SelectSeq(edits, LAMBDA e : e.field_name = user_edit.field_name)
        pattern(e) == <<e.original_value, e.new_value>>
        frequent_patterns ==
            {pattern(recent_edits[i]) : i \in
                {i \in 1..Len(recent_edits) :
                    \E j \in 1..Len(recent_edits) :
                        j # i /\ pattern(recent_edits[j]) = pattern(recent_edits[i])}}
    IN IF fails \/ Len(recent_edits) < 3 \/ frequent_patterns = {}
       THEN <<>>
       ELSE <<[type |-> "frequent_correction_pattern", patterns |-> frequent_patterns]>>

\* _update_company_learning on the stored profile (None when the user has
\* none): the update dict and the profile the database holds afterwards.
\* get_or_create stores a new profile at once; the appends are stored by
\* the save() at the end, which an exception skips.
_update_company_learning(stored_profile, user_edit, fails) ==
    LET company_profile ==
            IF stored_profile = None THEN DefaultCompanyProfile ELSE stored_profile[1]
        field_name == user_edit.field_name
        has_underscore == Len(field_name) > 1
        parts == field_name
        cost_center == parts[1]
        with_cost_center ==
            IF /\ has_underscore
               /\ Len(parts) >= 2
               /\ isalnum(parts[1])
               /\ ~has(company_profile.common_cost_centers, cost_center)
            THEN [company_profile EXCEPT !.common_cost_centers = Append(@, cost_center)]
            ELSE company_profile
        task == parts[2]
        with_task ==
            IF Len(parts) >= 3 /\ ~has(with_cost_center.common_tasks, task)
            THEN [with_cost_center EXCEPT !.common_tasks = Append(@, task)]
            ELSE with_cost_center
        with_time_format ==
            IF /\ contains_any(field_name, {"START", "BREAK", "LUNCH", "END"})
               /\ has_colon(user_edit.new_value)
            THEN [with_task EXCEPT !.prefers_colon_format = TRUE]
            ELSE with_task
    IN IF fails
       THEN \* the lookup of the profile raises
            [learning |-> [type |-> "company_learning", error |-> TRUE],
             company_profile |-> stored_profile]
       ELSE IF ~has_underscore
       THEN \* parts is unbound at 'if len(parts) >= 3'
            [learning |-> [type |-> "company_learning", error |-> TRUE],
             company_profile |-> Some(company_profile)]
       ELSE [learning |-> [type |-> "company_learning", error |-> FALSE],
             company_profile |-> Some(with_time_format)]

\* The try block of process_user_feedback, steps 1 to 7: feedback_result
\* as far as it got, the stored company profile, and whether an exception
\* left the block.  Each step catches its own failures; the test of step 3
\* reads user_edit.session.crew_sheet.template_used outside any of them.
\* The lists of improvements and recommendations are not modelled.
feedback_try_block(user_edit, edits, sheet, stored_profile, failing) ==
    LET field_learning == _update_field_learning(user_edit, "field" \in failing)
        pattern_updates == _detect_and_update_patterns(user_edit, edits, "pattern" \in failing)
        after_patterns ==
            [learning_updates |-> <<field_learning>>,
             pattern_discoveries |-> pattern_updates,
             cached |-> FALSE]
    IN IF ~hasattr(sheet, "template_used")
       THEN \* AttributeError
            [feedback_result |-> after_patterns,
             company_profile |-> stored_profile,
             exception |-> TRUE]
       ELSE LET template_learning ==
                    [type |-> "template_learning", error |-> "template" \in failing]
                after_template ==
                    IF sheet["template_used"]
                    THEN Append(after_patterns.learning_updates, template_learning)
                    ELSE after_patterns.learning_updates
                company ==
                    _update_company_learning(stored_profile, user_edit, "company" \in failing)
            IN [feedback_result |->
                    [learning_updates |-> Append(after_template, company.learning),
                     pattern_discoveries |-> pattern_updates,
                     cached |-> "cache" \notin failing],
                company_profile |-> company.company_profile,
                exception |-> FALSE]

\* process_user_feedback with the except branch left out: what leaves the
\* try block reaches the caller.
process_user_feedback_uncaught(user_edit, edits, sheet, stored_profile, failing) ==
    LET block == feedback_try_block(user_edit, edits, sheet, stored_profile, failing)
    IN [feedback_result |->
            [learning_updates |-> block.feedback_result.learning_updates,
             pattern_discoveries |-> block.feedback_result.pattern_discoveries,
             cached |-> block.feedback_result.cached,
             error |-> FALSE],
        company_profile |-> block.company_profile,
        raised |-> block.exception]

\* process_user_feedback: the except branch stores the error in
\* feedback_result, which is returned in every case.
process_user_feedback(user_edit, edits, sheet, stored_profile, failing) ==
    LET block == feedback_try_block(user_edit, edits, sheet, stored_profile, failing)
    IN [feedback_result |->
            [learning_updates |-> block.feedback_result.learning_updates,
             pattern_discoveries |-> block.feedback_result.pattern_discoveries,
             cached |-> block.feedback_result.cached,
             error |-> block.exception],
        company_profile |-> block.company_profile,
        raised |-> FALSE]

\* The session metrics track_edit updates and saves.
session_with_edit(s, field_name) ==
    [edit_count |-> s.edit_count + 1,
     fields_edited |->
        IF has(s.fields_edited, field_name) THEN s.fields_edited
        ELSE Append(s.fields_edited, field_name),
     time_to_first_edit_set |-> s.time_to_first_edit_set \/ s.edit_count + 1 = 1]

\* A new session of a user who has no company profile yet or an empty one.
InitLearning ==
    /\ user_edits = <<>>
    /\ session_row = NewSession
    /\ profile_row \in {None, Some(DefaultCompanyProfile)}
    /\ feedback = None
    /\ feedback_raised = FALSE
    /\ returned_edit = None
    /\ RetryIdle
    /\ ApiIdle
    /\ StageIdle
    /\ ValidatorIdle
    /\ ScorerIdle
    /\ TemplateIdle
    /\ ProcessingIdle
    /\ RequestsIdle
    /\ SessionsIdle
    /\ MatchingIdle

\* track_edit(session, field_name, original_value, new_value): the edit is
\* created, the session metrics are saved, the learning loop runs inside
\* try/except, and the edit is returned.
TrackEdit ==
    /\ Len(user_edits) < MaxEdits
    /\ \E field_name \in EditedFieldNames, original_value \in OriginalValues,
          new_value \in NewValues, failing \in FailingChoices :
         LET edit == [field_name |-> field_name,
                      original_value |-> original_value,
                      new_value |-> new_value]
             edits == Append(user_edits, edit)
             result == process_user_feedback(edit, edits, crew_sheet,
                                             profile_row, failing)
         IN /\ user_edits' = edits
            /\ session_row' = session_with_edit(session_row, field_name)
            /\ profile_row' = result.company_profile
            /\ feedback' = Some(result.feedback_result)
            /\ feedback_raised' = result.raised
            /\ returned_edit' = Some(edit)
    /\ UNCHANGED <<retry_vars, api_vars, stage_vars, val_vars, scorer_vars, tmpl_vars, proc_vars, req_vars, sess_vars, match_vars>>

NextLearning == TrackEdit

SpecLearning == InitLearning /\ [][NextLearning]_vars

(***************************************************************************)
(* Claims about the learning loop, checked under SpecLearning              *)
(***************************************************************************)

\* C19: whatever happens inside the learning loop, track_edit has persisted
\* the UserEdit, updated the counters of the session (edit_count counts
\* every edit, fields_edited holds every edited field once) and returned
\* the edit, and process_user_feedback has not raised to its caller.
C19_EditRecordedWhateverLearningDoes ==
    /\ ~feedback_raised
    /\ returned_edit # None =>
          /\ user_edits # <<>>
          /\ returned_edit[1] = user_edits[Len(user_edits)]
          /\ session_row.edit_count = Len(user_edits)
          /\ session_row.time_to_first_edit_set
          /\ set_of(session_row.fields_edited)
                = {user_edits[i].field_name : i \in 1..Len(user_edits)}
          /\ \A i, j \in 1..Len(session_row.fields_edited) :
                session_row.fields_edited[i] = session_row.fields_edited[j] => i = j
          /\ feedback # None
    /\ returned_edit = None => user_edits = <<>>

\* An edit was returned although the learning loop ended in its except
\* branch after a learning step had failed on its own.
C19_Witness ==
    /\ returned_edit # None
    /\ feedback[1].error
    /\ \E i \in 1..Len(feedback[1].learning_updates) :
          feedback[1].learning_updates[i].error
    /\ Len(user_edits) >= 2

\* The number of occurrences of a token in a list.
occurrences(list, token) == Cardinality({i \in 1..Len(list) : list[i] = token})

\* field_name has the form COSTCENTER_TASK_JOBTYPE.
hierarchical(field_name) == Len(field_name) = 3 /\ isalnum(field_name[1])

\* C20 as stated: once process_user_feedback has handled an edit whose
\* field name has the form COSTCENTER_TASK_JOBTYPE, the company profile of
\* the user holds the cost-center token in common_cost_centers and the task
\* token in common_tasks, each exactly once, however often such an edit
\* was handled.
C20_CompanyProfileHoldsTokensOnce ==
    \A i \in 1..Len(user_edits) :
        hierarchical(user_edits[i].field_name) =>
            /\ profile_row # None
            /\ occurrences(profile_row[1].common_cost_centers,
                           user_edits[i].field_name[1]) = 1
            /\ occurrences(profile_row[1].common_tasks,
                           user_edits[i].field_name[2]) = 1

(***************************************************************************)
(* CrewSheetViewSet.process, CrewSheetProcessor.process_crew_sheet_with_-  *)
(* learning and LearningSystem.process_extraction (views.py, services.py,  *)
(* analytics.py)                                                           *)
(***************************************************************************)

\* needs_review = confidence_score < 0.7 or len(issues) > 2; confidences in
\* hundredths.
ReviewThreshold == 70
ReviewIssueCount == 2

\* What extract_crew_sheet_data returns: the parsed answer of the model
\* (valid is added when absent) or a failure dict with its message; an
\* answer that says valid=false may carry no error_message.
ExtractionAnswers ==
    {[valid |-> TRUE, error_message |-> NoneStr],
     [valid |-> FALSE, error_message |-> NoneStr],
     [valid |-> FALSE, error_message |-> "Not a crew sheet"],
     [valid |-> FALSE, error_message |-> "API timeout: Request timed out."],
     [valid |-> FALSE, error_message |-> "Failed to read or encode image: No such file"]}

\* The confidence and the number of issues QualityValidator reports.
BasicConfidences == {40, 69, 70, 90}
IssueCounts == {0, 2, 3}

\* The outcome of EnhancedConfidenceScorer.calculate_enhanced_confidence
\* and of the context-aware validation with its logging: None when it
\* raises, or the confidence it gives.
EnhancedOutcomes == {None, Some(65), Some(95)}
ContextOutcomes == {None, Some(50), Some(85)}

\* The rows a sheet can be in when the request arrives.
SheetRows ==
    {[status |-> "pending", error_message |-> "", confidence_score |-> 0,
      needs_review |-> FALSE],
     [status |-> "completed", error_message |-> "", confidence_score |-> 90,
      needs_review |-> FALSE],
     [status |-> "failed", error_message |-> "Unknown error", confidence_score |-> 0,
      needs_review |-> FALSE]}

\* extracted_data.get('error_message', 'Unknown error')
get_error_message(answer) ==
    IF answer.error_message = NoneStr THEN "Unknown error" ELSE answer.error_message

\* LearningSystem.process_extraction: the confidence is the context-aware
\* one, else the enhanced one, else the basic one; the sheet gets it with
\* needs_review and is saved.  context_validation_result is first bound
\* after the enhanced scoring, so when that scoring raised the test
\* 'if context_validation_result:' before the return raises.
process_extraction(sheet_record, basic_confidence, issue_count, enhanced, context) ==
    LET confidence_score ==
            IF enhanced = None THEN basic_confidence
            ELSE IF context # None THEN context[1]
            ELSE enhanced[1]
        needs_review == confidence_score < ReviewThreshold \/ issue_count > ReviewIssueCount
    IN [sheet |-> [sheet_record EXCEPT !.confidence_score = confidence_score,
                                       !.needs_review = needs_review],
        raised |-> IF enhanced = None
                   THEN "local variable 'context_validation_result' referenced before assignment"
                   ELSE NoneStr,
        result |-> [confidence_score |-> confidence_score,
                    needs_review |-> needs_review,
                    issues |-> issue_count]]

\* The except branch without its assignments: the sheet is saved as it is.
sheet_failed_unmarked(sheet_record, text) == sheet_record

\* crew_sheet.status = 'failed'; crew_sheet.error_message = ...; save()
sheet_failed(sheet_record, text) ==
    [sheet_record EXCEPT !.status = "failed", !.error_message = text]

\* A request to process a sheet of the user.
InitProcessing ==
    /\ proc_pc = "request"
    /\ sheet_row \in SheetRows
    /\ status_history = <<sheet_row.status>>
    /\ proc_extraction = None
    /\ proc_learning = None
    /\ proc_raised = FALSE
    /\ proc_returned = None
    /\ RetryIdle
    /\ ApiIdle
    /\ StageIdle
    /\ ValidatorIdle
    /\ ScorerIdle
    /\ TemplateIdle
    /\ LearningIdle
    /\ RequestsIdle
    /\ SessionsIdle
    /\ MatchingIdle

\* CrewSheetViewSet.process: only a pending sheet is processed.
ProcessRequested ==
    /\ proc_pc = "request"
    /\ IF sheet_row.status # "pending"
       THEN /\ proc_pc' = "done"
            /\ proc_returned' = Some([valid |-> FALSE, http_status |-> 400])
       ELSE /\ proc_pc' = "start"
            /\ UNCHANGED proc_returned
    /\ UNCHANGED <<sheet_row, status_history, proc_extraction, proc_learning, proc_raised>>
    /\ UNCHANGED <<retry_vars, api_vars, stage_vars, val_vars, scorer_vars, tmpl_vars, learn_vars, req_vars, sess_vars, match_vars>>

\* crew_sheet.status = 'processing'; crew_sheet.save()
MarkProcessing ==
    /\ proc_pc = "start"
    /\ proc_pc' = "extract"
    /\ sheet_row' = [sheet_row EXCEPT !.status = "processing"]
    /\ status_history' = Append(status_history, "processing")
    /\ UNCHANGED <<proc_extraction, proc_learning, proc_raised, proc_returned>>
    /\ UNCHANGED <<retry_vars, api_vars, stage_vars, val_vars, scorer_vars, tmpl_vars, learn_vars, req_vars, sess_vars, match_vars>>

\* The extraction returns; an invalid one marks the sheet failed and is
\* returned.
ExtractionReturns ==
    /\ proc_pc = "extract"
    /\ \E answer \in ExtractionAnswers :
         /\ proc_extraction' = Some(answer)
         /\ IF ~answer.valid
            THEN /\ sheet_row' = sheet_failed(sheet_row, get_error_message(answer))
                 /\ status_history' = Append(status_history, sheet_row'.status)
                 /\ proc_returned' = Some([valid |-> FALSE, http_status |-> 500])
                 /\ proc_pc' = "done"
            ELSE /\ proc_pc' = "learn"
                 /\ UNCHANGED <<sheet_row, status_history, proc_returned>>
    /\ UNCHANGED <<proc_learning, proc_raised>>
    /\ UNCHANGED <<retry_vars, api_vars, stage_vars, val_vars, scorer_vars, tmpl_vars, learn_vars, req_vars, sess_vars, match_vars>>

\* Something raises before the learning system is reached (the client
\* cannot be created, the image has no file): the except branch marks the
\* sheet failed.
ExtractionRaisesError ==
    /\ proc_pc = "extract"
    /\ proc_raised' = TRUE
    /\ sheet_row' = sheet_failed(sheet_row, "The api_key client option must be set")
    /\ status_history' = Append(status_history, sheet_row'.status)
    /\ proc_returned' = Some([valid |-> FALSE, http_status |-> 500])
    /\ proc_pc' = "done"
    /\ UNCHANGED <<proc_extraction, proc_learning>>
    /\ UNCHANGED <<retry_vars, api_vars, stage_vars, val_vars, scorer_vars, tmpl_vars, learn_vars, req_vars, sess_vars, match_vars>>

\* The learning system processes the valid extraction; the sheet is
\* completed with its confidence and review flag, or the except branch
\* marks it failed.
LearningProcessed ==
    /\ proc_pc = "learn"
    /\ \E basic_confidence \in BasicConfidences, issue_count \in IssueCounts,
          enhanced \in EnhancedOutcomes, context \in ContextOutcomes :
         LET learned == process_extraction(sheet_row, basic_confidence, issue_count,
                                           enhanced, context)
         IN /\ proc_learning' = Some([basic_confidence |-> basic_confidence,
                                      enhanced |-> enhanced,
                                      context |-> context,
                                      result |-> learned.result])
            /\ IF learned.raised # NoneStr
               THEN /\ proc_raised' = TRUE
                    /\ sheet_row' = sheet_failed(learned.sheet, learned.raised)
                    /\ proc_returned' = Some([valid |-> FALSE, http_status |-> 500])
               ELSE /\ proc_raised' = FALSE
                    /\ sheet_row' =
                          [learned.sheet EXCEPT
                              !.status = "completed",
                              !.confidence_score = learned.result.confidence_score,
                              !.needs_review = learned.result.needs_review]
                    /\ proc_returned' = Some([valid |-> TRUE, http_status |-> 200])
            /\ status_history' = Append(status_history, sheet_row'.status)
    /\ proc_pc' = "done"
    /\ UNCHANGED proc_extraction
    /\ UNCHANGED <<retry_vars, api_vars, stage_vars, val_vars, scorer_vars, tmpl_vars, learn_vars, req_vars, sess_vars, match_vars>>

\* A record of the learning system cannot be written (QualityAssessment,
\* FieldConfidence, ExtractionLog) after the sheet got its confidence: the
\* except branch marks the sheet failed.
LearningRaisesError ==
    /\ proc_pc = "learn"
    /\ \E basic_confidence \in BasicConfidences, issue_count \in IssueCounts :
         LET learned == process_extraction(sheet_row, basic_confidence, issue_count,
                                           Some(95), Some(85))
         IN /\ proc_learning' = Some([basic_confidence |-> basic_confidence,
                                      enhanced |-> Some(95),
                                      context |-> Some(85),
                                      result |-> learned.result])
            /\ sheet_row' = sheet_failed(learned.sheet, "'NoneType' object has no attribute 'strip'")
    /\ proc_raised' = TRUE
    /\ status_history' = Append(status_history, sheet_row'.status)
    /\ proc_returned' = Some([valid |-> FALSE, http_status |-> 500])
    /\ proc_pc' = "done"
    /\ UNCHANGED proc_extraction
    /\ UNCHANGED <<retry_vars, api_vars, stage_vars, val_vars, scorer_vars, tmpl_vars, learn_vars, req_vars, sess_vars, match_vars>>

NextProcessing ==
    \/ ProcessRequested
    \/ MarkProcessing
    \/ ExtractionReturns
    \/ ExtractionRaisesError
    \/ LearningProcessed
    \/ LearningRaisesError

SpecProcessing == InitProcessing /\ [][NextProcessing]_vars

(***************************************************************************)
(* Claims about the processing of a sheet, checked under SpecProcessing    *)
(***************************************************************************)

\* The request was for a pending sheet and process_crew_sheet_with_learning
\* has returned.
Processed == proc_pc = "done" /\ Head(status_history) = "pending"

ExtractionInvalidAnswer == proc_extraction # None /\ ~proc_extraction[1].valid

MaxRequests == 2

\* request.data.get('cost_center', '')
CostCenters == {"", "KW12", "KW13", "KW14"}

\* The test of add_cost_center without 'not in': a non-empty cost center is
\* appended whether or not the list has it.
with_cost_center_unchecked(list, cost_center) ==
    IF cost_center # "" THEN Append(list, cost_center) ELSE list

\* if cost_center and cost_center not in profile.common_cost_centers:
\*     profile.common_cost_centers.append(cost_center)
with_cost_center(list, cost_center) ==
    IF cost_center # "" /\ ~has(list, cost_center) THEN Append(list, cost_center) ELSE list

\* The user has no profile, an empty one, or one that knows a cost center;
\* each request carries its cost center.
InitRequests ==
    /\ profile_rows \in {<<>>, << <<>> >>, << <<"KW12">> >>}
    /\ requests \in [1..MaxRequests ->
                        {[pc |-> "get", cost_center |-> c, held |-> 0, loaded |-> <<>>,
                          response |-> None] : c \in CostCenters}]
    /\ RetryIdle
    /\ ApiIdle
    /\ StageIdle
    /\ ValidatorIdle
    /\ ScorerIdle
    /\ TemplateIdle
    /\ LearningIdle
    /\ ProcessingIdle
    /\ SessionsIdle
    /\ MatchingIdle

\* get_or_create, the get: the row of the user is read; with no row the
\* request goes on to create one, with several rows get() raises
\* MultipleObjectsReturned and the view answers 500.
GetProfile(r) ==
    /\ requests[r].pc = "get"
    /\ requests' =
          [requests EXCEPT ![r] =
              IF Len(profile_rows) = 0 THEN [@ EXCEPT !.pc = "create"]
              ELSE IF Len(profile_rows) = 1
              THEN [@ EXCEPT !.pc = "loaded", !.held = 1, !.loaded = profile_rows[1]]
              ELSE [@ EXCEPT !.pc = "done", !.response = Some([success |-> FALSE])]]
    /\ UNCHANGED profile_rows
    /\ UNCHANGED <<retry_vars, api_vars, stage_vars, val_vars, scorer_vars, tmpl_vars, learn_vars, proc_vars, sess_vars, match_vars>>

\* get_or_create, the create: a row with the defaults is inserted (user is
\* a ForeignKey, so a second row of the same user is accepted).
CreateProfile(r) ==
    /\ requests[r].pc = "create"
    /\ profile_rows' = Append(profile_rows, <<>>)
    /\ requests' = [requests EXCEPT ![r] =
                       [@ EXCEPT !.pc = "loaded", !.held = Len(profile_rows) + 1,
                                 !.loaded = <<>>]]
    /\ UNCHANGED <<retry_vars, api_vars, stage_vars, val_vars, scorer_vars, tmpl_vars, learn_vars, proc_vars, sess_vars, match_vars>>

\* The rest of add_cost_center: a new, non-empty cost center is appended to
\* the list that was read and the row is saved with that list; the list is
\* the response.
AppendAndSave(r) ==
    /\ requests[r].pc = "loaded"
    /\ LET request == requests[r]
           list == with_cost_center(request.loaded, request.cost_center)
       IN /\ profile_rows' = IF list # request.loaded
                             THEN [profile_rows EXCEPT ![request.held] = list]
                             ELSE profile_rows
          /\ requests' = [requests EXCEPT ![r] =
                             [@ EXCEPT !.pc = "done", !.loaded = list,
                                       !.response = Some([success |-> TRUE])]]
    /\ UNCHANGED <<retry_vars, api_vars, stage_vars, val_vars, scorer_vars, tmpl_vars, learn_vars, proc_vars, sess_vars, match_vars>>

NextRequests ==
    \E r \in 1..MaxRequests :
        \/ GetProfile(r)
        \/ CreateProfile(r)
        \/ AppendAndSave(r)

SpecRequests == InitRequests /\ [][NextRequests]_vars

(***************************************************************************)
(* Claims about concurrent profile updates, checked under SpecRequests     *)
(***************************************************************************)

no_duplicates(list) == \A i, j \in 1..Len(list) : list[i] = list[j] => i = j

\* C22: whatever the interleaving of the requests, no stored list of cost
\* centers holds a token twice, and every request that was answered with
\* success and carried a token had it in the list it saved or read.
C22_StoredListHasNoDuplicates ==
    /\ \A k \in 1..Len(profile_rows) : no_duplicates(profile_rows[k])
    /\ \A r \in 1..MaxRequests :
          (/\ requests[r].pc = "done"
           /\ requests[r].response = Some([success |-> TRUE])
           /\ requests[r].cost_center # "") =>
              has(requests[r].loaded, requests[r].cost_center)

\* The lost update: two requests read the same row, each appended a
\* different new token and was answered with success, and the token of one
\* of them is not in the stored list.
C22_Witness ==
    \E r1, r2 \in 1..MaxRequests :
        /\ r1 # r2
        /\ requests[r1].pc = "done" /\ requests[r2].pc = "done"
        /\ requests[r1].response = Some([success |-> TRUE])
        /\ requests[r2].response = Some([success |-> TRUE])
        /\ requests[r1].cost_center # "" /\ requests[r2].cost_center # ""
        /\ requests[r1].cost_center # requests[r2].cost_center
        /\ requests[r1].held = 1 /\ requests[r2].held = 1
        /\ Len(profile_rows) = 1
        /\ ~has(profile_rows[1], requests[r1].cost_center)
        /\ has(profile_rows[1], requests[r2].cost_center)

(***************************************************************************)
(* UserBehaviorAnalytics.start_session, track_edit, end_session and        *)
(* _update_user_profile (analytics.py), called by the views of one user    *)
(***************************************************************************)

\* Sessions the user starts, edits tracked and end_session calls made.
MaxSessions == 3
MaxTrackedEdits == 2
MaxEndCalls == 3

\* The sheets of the user.
SheetIds == {"sheet1", "sheet2"}

\* _update_user_profile(session), as far as the two counters go: the sheet
\* is counted when the session is the only session of the user on it, and
\* the edit count of the session is added.  (The average duration, the
\* abandonment rate and the per-field counters are not modelled.)
_update_user_profile(profile, all_sessions, k) ==
    LET existing_sessions ==
            {i \in 1..Len(all_sessions) :
                all_sessions[i].crew_sheet = all_sessions[k].crew_sheet}
        first_session == existing_sessions = {k}
    IN [total_sheets_processed |->
            profile.total_sheets_processed + (IF first_session THEN 1 ELSE 0),
        total_edits_made |-> profile.total_edits_made + all_sessions[k].edit_count,
        counted |-> IF first_session
                    THEN [profile.counted EXCEPT ![all_sessions[k].crew_sheet] = @ + 1]
                    ELSE profile.counted]

\* A user without sessions; the profile row is created with its defaults by
\* the first get_or_create.  counted records, per sheet, how often it was
\* added to total_sheets_processed.
InitSessions ==
    /\ sessions = <<>>
    /\ user_profile = [total_sheets_processed |-> 0, total_edits_made |-> 0,
                       counted |-> [s \in SheetIds |-> 0]]
    /\ end_calls = 0
    /\ RetryIdle
    /\ ApiIdle
    /\ StageIdle
    /\ ValidatorIdle
    /\ ScorerIdle
    /\ TemplateIdle
    /\ LearningIdle
    /\ ProcessingIdle
    /\ RequestsIdle
    /\ MatchingIdle

\* start_session(crew_sheet, user)
StartSession ==
    /\ Len(sessions) < MaxSessions
    /\ \E crew_sheet_id \in SheetIds :
         sessions' = Append(sessions, [crew_sheet |-> crew_sheet_id, edit_count |-> 0,
                                       ended |-> FALSE])
    /\ UNCHANGED <<user_profile, end_calls>>
    /\ UNCHANGED <<retry_vars, api_vars, stage_vars, val_vars, scorer_vars, tmpl_vars, learn_vars, proc_vars, req_vars, match_vars>>

\* track_edit on a session of the user, ended or not: a UserEdit row is
\* created and session.edit_count is incremented.
TrackSessionEdit ==
    /\ \E k \in 1..Len(sessions) :
         /\ sessions[k].edit_count < MaxTrackedEdits
         /\ sessions' = [sessions EXCEPT ![k].edit_count = @ + 1]
    /\ UNCHANGED <<user_profile, end_calls>>
    /\ UNCHANGED <<retry_vars, api_vars, stage_vars, val_vars, scorer_vars, tmpl_vars, learn_vars, proc_vars, req_vars, match_vars>>

\* end_session on a session of the user, ended before or not: the session
\* is saved as ended and the profile is updated.
EndSession ==
    /\ end_calls < MaxEndCalls
    /\ \E k \in 1..Len(sessions) :
         /\ sessions' = [sessions EXCEPT ![k].ended = TRUE]
         /\ user_profile' = _update_user_profile(user_profile, sessions, k)
    /\ end_calls' = end_calls + 1
    /\ UNCHANGED <<retry_vars, api_vars, stage_vars, val_vars, scorer_vars, tmpl_vars, learn_vars, proc_vars, req_vars, match_vars>>

NextSessions ==
    \/ StartSession
    \/ TrackSessionEdit
    \/ EndSession

SpecSessions == InitSessions /\ [][NextSessions]_vars

(***************************************************************************)
(* Claims about the user profile counters, checked under SpecSessions      *)
(***************************************************************************)

EndedSessions == {k \in 1..Len(sessions) : sessions[k].ended}

\* C27 as stated: once a session on a sheet has ended, the sheet has been
\* counted exactly once in total_sheets_processed.
C27_EndedSheetCountedOnce ==
    /\ \A k \in EndedSessions : user_profile.counted[sessions[k].crew_sheet] = 1
    /\ user_profile.total_sheets_processed
          = Cardinality({sessions[k].crew_sheet : k \in EndedSessions})

RECURSIVE SumEdits(_)
SumEdits(ks) ==
    IF ks = {} THEN 0
    ELSE LET k == CHOOSE x \in ks : TRUE
         IN sessions[k].edit_count + SumEdits(ks \ {k})

\* C28 as stated: total_edits_made is the number of UserEdit records
\* tracked in the ended sessions of the user.
C28_TotalEditsCountsEditsOfEndedSessions ==
    user_profile.total_edits_made = SumEdits(EndedSessions)

(***************************************************************************)
(* CrewMatchingService (crew_matching_service.py): the names, cost centers *)
(* and tasks of an extraction are matched against the lists of the company *)
(* profile.  Strings are kept as strings; lower(), strip() and the         *)
(* SequenceMatcher ratio are tabulated over the strings used here, the     *)
(* ratio in thousandths.                                                   *)
(***************************************************************************)

SIMILARITY_THRESHOLD == 800
NAME_SIMILARITY_THRESHOLD == 850

MaxExtracted == 2
MaxKnown == 2

KW14_PRUNING_HRS == <<"KW14", "PRUNING", "HRS">>

ExtractedNames == {"John Smith", "JOHN SMITH", " John Smith", "Jon Smith", "Mary Jones", "J", ""}
KnownCrewNames == {"John Smith", "Jon Smith", "Mary Jones"}
MatchHeaders == {KW13_WEEDING_HRS, KW_13_WEEDING_HRS, KW14_PRUNING_HRS, START_IN, NAME}
KnownCostCenters == {"KW13", "kw13", "KW14", "KW131"}
KnownTasks == {"WEEDING", "weeding", "PRUNING", "WEDING"}

ListsOf(items, max_len) == UNION {[1..n -> items] : n \in 0..max_len}

\* str.lower()
lower(s) ==
    CASE s \in {"John Smith", "JOHN SMITH"} -> "john smith"
      [] s = "Jon Smith" -> "jon smith"
      [] s = "Mary Jones" -> "mary jones"
      [] s = "J" -> "j"
      [] s = "KW13" -> "kw13"
      [] s = "KW14" -> "kw14"
      [] s = "KW131" -> "kw131"
      [] s = "START" -> "start"
      [] s = "WEEDING" -> "weeding"
      [] s = "PRUNING" -> "pruning"
      [] s = "WEDING" -> "weding"
      [] OTHER -> s

\* str.strip()
strip(s) == IF s = " John Smith" THEN "John Smith" ELSE s

\* len(s) of the stripped names
name_len(s) ==
    CASE s = "" -> 0
      [] s = "J" -> 1
      [] s = "Jon Smith" -> 9
      [] OTHER -> 10

\* SequenceMatcher(None, a, b).ratio() of two lowercase strings, in
\* thousandths (difflib: 2 * matches / (len(a) + len(b))).
SequenceMatcher_ratio(a, b) ==
    IF a = b THEN 1000
    ELSE CASE {a, b} = {"john smith", "jon smith"} -> 947
           [] {a, b} = {"john smith", "mary jones"} -> 400
           [] {a, b} = {"jon smith", "mary jones"} -> 421
           [] {a, b} = {"kw13", "kw14"} -> 750
           [] {a, b} = {"kw13", "kw131"} -> 889
           [] {a, b} = {"kw14", "kw131"} -> 667
           [] {a, b} = {"weeding", "pruning"} -> 429
           [] {a, b} = {"weeding", "weding"} -> 923
           [] {a, b} = {"pruning", "weding"} -> 462
           [] OTHER -> 0

\* candidates.index(target): the 0-based index of the first occurrence, or
\* None when index() raises ValueError.
_find_exact_match(target, candidates) ==
    IF has(candidates, target)
    THEN Some((CHOOSE i \in 1..Len(candidates) :
                  /\ candidates[i] = target
                  /\ \A j \in 1..(i - 1) : candidates[j] # target) - 1)
    ELSE None

\* `if exact_match:` on an Optional[int]: None and 0 are both false.
truthy_index(exact_match) == exact_match # None /\ exact_match[1] # 0

RECURSIVE fuzzy_from(_, _, _, _, _, _)
fuzzy_from(i, target, candidates, threshold, best_match, best_similarity) ==
    IF i > Len(candidates) THEN <<best_match, best_similarity>>
    ELSE LET similarity == SequenceMatcher_ratio(lower(target), lower(candidates[i]))
         IN  IF similarity > best_similarity /\ similarity >= threshold
             THEN fuzzy_from(i + 1, target, candidates, threshold,
                             Some(candidates[i]), similarity)
             ELSE fuzzy_from(i + 1, target, candidates, threshold,
                             best_match, best_similarity)

\* (best_match, best_similarity): the first candidate of the highest ratio
\* at or above the threshold, or (None, 0.0).
_find_best_fuzzy_match(target, candidates, threshold) ==
    fuzzy_from(1, target, candidates, threshold, None, 0)

lower_all(list) == [i \in 1..Len(list) |-> lower(list[i])]

\* The branch taken for one extracted item: the entry appended to the
\* matched list and the entry written to the fuzzy dictionary, if any.
\* The suggestions of a new item are not kept.
match_entry(extracted, known, threshold) ==
    LET exact_match == _find_exact_match(lower(extracted), lower_all(known))
        fuzzy == _find_best_fuzzy_match(extracted, known, threshold)
    IN  IF truthy_index(exact_match)
        THEN [match_type |-> "exact", matched |-> known[exact_match[1] + 1]]
        ELSE IF fuzzy[1] # None
        THEN [match_type |-> "fuzzy", matched |-> fuzzy[1][1],
              similarity_score |-> fuzzy[2]]
        ELSE [match_type |-> "new"]

EmptyCrewResult ==
    [new_crew_names |-> <<>>, matched_crew_names |-> <<>>, fuzzy_crew_matches |-> <<>>]

RECURSIVE crew_names_from(_, _, _, _)
crew_names_from(i, crew, known_names, result) ==
    IF i > Len(crew) THEN result
    ELSE
    LET extracted_name == strip(crew[i])
        entry == match_entry(extracted_name, known_names, NAME_SIMILARITY_THRESHOLD)
        next_result ==
            IF extracted_name = "" \/ name_len(extracted_name) <= 1 THEN result
            ELSE IF known_names = <<>> \/ entry.match_type = "new"
            THEN [result EXCEPT !.new_crew_names =
                     Append(@, [name |-> extracted_name, employee_index |-> i - 1])]
            ELSE IF entry.match_type = "exact"
            THEN [result EXCEPT !.matched_crew_names =
                     Append(@, [extracted_name |-> extracted_name,
                                matched_name |-> entry.matched,
                                employee_index |-> i - 1,
                                match_type |-> "exact"])]
            ELSE [result EXCEPT
                     !.fuzzy_crew_matches =
                         (extracted_name :> [matched_name |-> entry.matched,
                                             similarity_score |-> entry.similarity_score,
                                             employee_index |-> i - 1,
                                             needs_confirmation |-> TRUE]) @@ @,
                     !.matched_crew_names =
                         Append(@, [extracted_name |-> extracted_name,
                                    matched_name |-> entry.matched,
                                    employee_index |-> i - 1,
                                    match_type |-> "fuzzy",
                                    similarity_score |-> entry.similarity_score])]
    IN  crew_names_from(i + 1, crew, known_names, next_result)

\* _match_crew_names(employees, known_names); crew[i] is employee.get('name', '').
_match_crew_names(crew, known_names) ==
    crew_names_from(1, crew, known_names, EmptyCrewResult)

\* The items of a set of extracted cost centers or tasks, matched one by
\* one.  The set is iterated in no particular order, so the lists of the
\* result are kept as sets.
match_items(extracted_items, known, threshold) ==
    LET entry(item) == match_entry(item, known, threshold)
        matches(type) == {item \in extracted_items :
                              known # <<>> /\ entry(item).match_type = type}
    IN  [new |-> {item \in extracted_items :
                      known = <<>> \/ entry(item).match_type = "new"},
         matched |-> {[extracted |-> item, matched |-> entry(item).matched,
                       match_type |-> "exact"] : item \in matches("exact")}
                     \cup
                     {[extracted |-> item, matched |-> entry(item).matched,
                       match_type |-> "fuzzy",
                       similarity_score |-> entry(item).similarity_score]
                          : item \in matches("fuzzy")},
         fuzzy |-> [item \in matches("fuzzy") |->
                       [matched |-> entry(item).matched,
                        similarity_score |-> entry(item).similarity_score,
                        needs_confirmation |-> TRUE]]]

\* parts[0] of the headers holding '_' whose first part is alphanumeric
extracted_cost_centers(header_list) ==
    {header_list[i][1] : i \in {j \in 1..Len(header_list) :
                                   /\ Len(header_list[j]) >= 2
                                   /\ isalnum(header_list[j][1])}}

\* parts[1] of the headers of three parts or more
extracted_tasks(header_list) ==
    {header_list[i][2] : i \in {j \in 1..Len(header_list) : Len(header_list[j]) >= 3}}

_match_cost_centers(header_list, known_cost_centers) ==
    LET items == match_items(extracted_cost_centers(header_list), known_cost_centers,
                             SIMILARITY_THRESHOLD)
    IN  [new_cost_centers |-> items.new,
         matched_cost_centers |-> items.matched,
         fuzzy_cost_center_matches |-> items.fuzzy]

_match_tasks(header_list, known_tasks) ==
    LET items == match_items(extracted_tasks(header_list), known_tasks,
                             SIMILARITY_THRESHOLD)
    IN  [new_tasks |-> items.new,
         matched_tasks |-> items.matched,
         fuzzy_task_matches |-> items.fuzzy]

\* No matching call has been made.
InitMatching ==
    /\ match_pc = "idle"
    /\ match_extracted = <<>>
    /\ match_known = <<>>
    /\ match_result = <<>>
    /\ RetryIdle
    /\ ApiIdle
    /\ StageIdle
    /\ ValidatorIdle
    /\ ScorerIdle
    /\ TemplateIdle
    /\ LearningIdle
    /\ ProcessingIdle
    /\ RequestsIdle
    /\ SessionsIdle

\* Step 1 of match_and_highlight_extraction
MatchCrewNames ==
    /\ match_pc = "idle"
    /\ \E crew \in ListsOf(ExtractedNames, MaxExtracted) \ {<<>>},
          known_names \in ListsOf(KnownCrewNames, MaxKnown) :
         /\ match_extracted' = crew
         /\ match_known' = known_names
         /\ match_result' = _match_crew_names(crew, known_names)
    /\ match_pc' = "crew_names"
    /\ UNCHANGED <<retry_vars, api_vars, stage_vars, val_vars, scorer_vars, tmpl_vars, learn_vars, proc_vars, req_vars, sess_vars>>

\* Step 2 of match_and_highlight_extraction
MatchCostCenters ==
    /\ match_pc = "idle"
    /\ \E header_list \in ListsOf(MatchHeaders, MaxExtracted),
          known_cost_centers \in ListsOf(KnownCostCenters, MaxKnown) :
         /\ match_extracted' = header_list
         /\ match_known' = known_cost_centers
         /\ match_result' = _match_cost_centers(header_list, known_cost_centers)
    /\ match_pc' = "cost_centers"
    /\ UNCHANGED <<retry_vars, api_vars, stage_vars, val_vars, scorer_vars, tmpl_vars, learn_vars, proc_vars, req_vars, sess_vars>>

\* Step 3 of match_and_highlight_extraction
MatchTasks ==
    /\ match_pc = "idle"
    /\ \E header_list \in ListsOf(MatchHeaders, MaxExtracted),
          known_tasks \in ListsOf(KnownTasks, MaxKnown) :
         /\ match_extracted' = header_list
         /\ match_known' = known_tasks
         /\ match_result' = _match_tasks(header_list, known_tasks)
    /\ match_pc' = "tasks"
    /\ UNCHANGED <<retry_vars, api_vars, stage_vars, val_vars, scorer_vars, tmpl_vars, learn_vars, proc_vars, req_vars, sess_vars>>

NextMatching ==
    \/ MatchCrewNames
    \/ MatchCostCenters
    \/ MatchTasks

SpecMatching == InitMatching /\ [][NextMatching]_vars

(***************************************************************************)
(* Claims about the matching, checked under SpecMatching                   *)
(***************************************************************************)

known_case_insensitively(item) == has(lower_all(match_known), lower(item))

\* The extracted items of the call made: the names that are not skipped,
\* the cost centers or the tasks of the headers.
ExtractedItems ==
    CASE match_pc = "crew_names" ->
             {strip(match_extracted[i]) : i \in {j \in 1..Len(match_extracted) :
                                            name_len(strip(match_extracted[j])) > 1}}
      [] match_pc = "cost_centers" -> extracted_cost_centers(match_extracted)
      [] match_pc = "tasks" -> extracted_tasks(match_extracted)
      [] OTHER -> {}

\* The match types reported for an extracted item
ReportedTypes(item) ==
    CASE match_pc = "crew_names" ->
             {match_result.matched_crew_names[i].match_type :
                  i \in {j \in 1..Len(match_result.matched_crew_names) :
                            match_result.matched_crew_names[j].extracted_name = item}}
      [] match_pc = "cost_centers" ->
             {m.match_type : m \in {x \in match_result.matched_cost_centers :
                                       x.extracted = item}}
      [] match_pc = "tasks" ->
             {m.match_type : m \in {x \in match_result.matched_tasks : x.extracted = item}}
      [] OTHER -> {}

FuzzyEntries ==
    CASE match_pc = "crew_names" -> DOMAIN match_result.fuzzy_crew_matches
      [] match_pc = "cost_centers" -> DOMAIN match_result.fuzzy_cost_center_matches
      [] match_pc = "tasks" -> DOMAIN match_result.fuzzy_task_matches
      [] OTHER -> {}

\* C30 as stated: an extracted crew name, cost center or task that equals
\* a known entry case-insensitively is reported with match_type 'exact' and
\* has no needs-confirmation fuzzy entry, whatever the position of the
\* known entry, the first position included.
C30_CaseInsensitiveEqualIsExact ==
    \A item \in ExtractedItems :
        known_case_insensitively(item) =>
            /\ ReportedTypes(item) = {"exact"}
            /\ item \notin FuzzyEntries

====
